---- MODULE Spec2Model ----
(***************************************************************************)
(* A model of the Toy interpreter: the lexer (src/src/lexer.rs), the Pratt *)
(* parser (src/src/parser.rs), the tree-walking evaluator                  *)
(* (src/src/interpreter.rs) and the driver loop of src/src/main.rs.        *)
(*                                                                         *)
(* Three specifications share the variables:                               *)
(*   SpecEval   the driver loop running a parsed program statement by      *)
(*              statement against an Environment;                          *)
(*   SpecParse  Parser::new followed by the iterations of parse_program    *)
(*              over a token stream;                                       *)
(*   SpecLex    repeated calls of Lexer::next_token over a character       *)
(*              string (SpecLexFair: the caller keeps calling).            *)
(* The recursive functions of the source are RECURSIVE operators that      *)
(* return a result record; a panic! of the source is the result status     *)
(* "panic", and leaving the bounds of the model (recursion budget, integer *)
(* range) is the result status "bound".                                    *)
(***************************************************************************)
EXTENDS Integers, Sequences, FiniteSets, TLC

VARIABLES
    \* ---- evaluator / driver (main.rs, interpreter.rs)
    program,      \* Vec<Stmt> returned by parse_program
    pc,           \* index of the next statement of the `for stmt in program` loop
    env,          \* Environment.values of the top-level environment
    last_value,   \* main's last_value
    run_status,   \* "running" | "done" | "panic" | "bound" | "idle"
    events,       \* history of the statement executed last (blocks, calls, assignments)
    \* ---- parser (parser.rs)
    stream,       \* the tokens Parser.lexer will still produce, in order
    parser,       \* [pos, current_token]: Parser.current_token and its index in stream
    statements,   \* the `statements` vector of parse_program
    parse_status, \* "new" | "parsing" | "done" | "panic" | "idle"
    parse_progress, \* history of the last step: one entry per finished loop iteration
    \* ---- lexer (lexer.rs)
    source,       \* the string handed to Lexer::new
    input,        \* Lexer.input: the characters not yet consumed
    token,        \* the Token returned by the last call of next_token
    lex_status,   \* "ready" | "panic" | "idle"
    calls         \* the number of calls of next_token so far

evalVars == <<program, pc, env, last_value, run_status, events>>
parseVars == <<stream, parser, statements, parse_status, parse_progress>>
lexVars == <<source, input, token, lex_status, calls>>
vars == <<program, pc, env, last_value, run_status, events,
          stream, parser, statements, parse_status, parse_progress,
          source, input, token, lex_status, calls>>

(***************************************************************************)
(* Bounds of the model.                                                    *)
(***************************************************************************)
\* Recursion budget of one top-level statement (nested calls + loop iterations).
EvalFuel == 33
\* Integers of the model live in -MaxAbsInt .. MaxAbsInt.
MaxAbsInt == 40

(***************************************************************************)
(* Values (interpreter.rs, enum Value).  Every variant keeps its payload   *)
(* in a field of its own.  A Float is the exact fraction n/d in lowest     *)
(* terms with d > 0 (d = 0: n = 1 is +inf, n = -1 is -inf, n = 0 is NaN).  *)
(***************************************************************************)
IntV(i) == [t |-> "Int", i |-> i]
FloatV(n, d) == [t |-> "Float", n |-> n, d |-> d]
BoolV(b) == [t |-> "Bool", b |-> b]
StrV(s) == [t |-> "Str", s |-> s]
Unit == [t |-> "Unit"]
FunctionV(params, body) == [t |-> "Function", params |-> params, body |-> body]
NativeFunc(f) == [t |-> "NativeFunc", f |-> f]

(***************************************************************************)
(* AST (ast.rs and the variants interpreter.rs matches on).                *)
(***************************************************************************)
Literal(v) == [e |-> "Literal", lit |-> v]
Variable(name) == [e |-> "Variable", name |-> name]
Unary(op, rhs) == [e |-> "Unary", op |-> op, rhs |-> rhs]
Binary(lhs, op, rhs) == [e |-> "Binary", lhs |-> lhs, op |-> op, rhs |-> rhs]
Call(name, args) == [e |-> "Call", name |-> name, args |-> args]
\* tail and else_branch are Option<Box<Expr>>: <<>> is None, <<x>> is Some(x).
Block(stmts, tail) == [e |-> "Block", statements |-> stmts, tail |-> tail]
If(c, th, el) == [e |-> "If", condition |-> c, then_branch |-> th, else_branch |-> el]

Let(name, expr) == [s |-> "Let", name |-> name, expr |-> expr]
Fn(name, params, body) == [s |-> "Fn", name |-> name, params |-> params, body |-> body]
Expression(expr) == [s |-> "Expression", expr |-> expr]
ImplicitReturn(expr) == [s |-> "ImplicitReturn", expr |-> expr]
Assign(name, expr) == [s |-> "Assign", name |-> name, expr |-> expr]
While(c, body) == [s |-> "While", condition |-> c, body |-> body]

(***************************************************************************)
(* Environment (interpreter.rs 48-78): a map from names to values.         *)
(***************************************************************************)
define(e, name, value) ==
    [n \in (DOMAIN e) \cup {name} |-> IF n = name THEN value ELSE e[n]]

contains_key(e, name) == name \in DOMAIN e

EmptyEnv == [n \in {} |-> Unit]

Environment_new == define(EmptyEnv, "println", NativeFunc("println"))

(***************************************************************************)
(* Arithmetic of the host types.  i64 results outside the integer range of *)
(* the model, and fractions whose terms leave it, end the evaluation with  *)
(* status "bound".                                                         *)
(***************************************************************************)
Abs(i) == IF i < 0 THEN -i ELSE i

Sign(i) == IF i < 0 THEN -1 ELSE IF i > 0 THEN 1 ELSE 0

RECURSIVE Gcd(_, _)
Gcd(a, b) == IF b = 0 THEN a ELSE Gcd(b, a % b)

\* The fraction n/d in lowest terms with a non-negative denominator.
Normalize(n, d) ==
    IF d = 0 THEN FloatV(Sign(n), 0)
    ELSE LET g == Gcd(Abs(n), Abs(d))
         IN  FloatV(Sign(d) * (n \div g), Abs(d) \div g)

IsNaN(f) == f.d = 0 /\ f.n = 0

\* `l as f64`
as_f64(i) == FloatV(i, 1)

f64_add(a, b) ==
    IF IsNaN(a) \/ IsNaN(b) THEN FloatV(0, 0)
    ELSE IF a.d = 0 /\ b.d = 0 THEN (IF a.n = b.n THEN a ELSE FloatV(0, 0))
    ELSE IF a.d = 0 THEN a
    ELSE IF b.d = 0 THEN b
    ELSE Normalize(a.n * b.d + b.n * a.d, a.d * b.d)

f64_neg(a) == FloatV(-a.n, a.d)

f64_sub(a, b) == f64_add(a, f64_neg(b))

f64_mul(a, b) == Normalize(a.n * b.n, a.d * b.d)

f64_div(a, b) == Normalize(a.n * b.d, a.d * b.n)

f64_lt(a, b) ==
    IF IsNaN(a) \/ IsNaN(b) THEN FALSE
    ELSE IF a.d = 0 /\ b.d = 0 THEN a.n < b.n
    ELSE a.n * b.d < b.n * a.d

f64_eq(a, b) == ~IsNaN(a) /\ ~IsNaN(b) /\ a = b

\* i64 `/`: truncation toward zero.
i64_div(l, r) == Sign(l) * Sign(r) * (Abs(l) \div Abs(r))

InRange(i) == -MaxAbsInt <= i /\ i <= MaxAbsInt

OkVal(v) == [st |-> "ok", val |-> v]
PanicVal == [st |-> "panic", val |-> Unit]
BoundVal == [st |-> "bound", val |-> Unit]

IntResult(i) == IF InRange(i) THEN OkVal(IntV(i)) ELSE BoundVal

FloatResult(f) == IF InRange(f.n) /\ InRange(f.d) THEN OkVal(f) ELSE BoundVal

ArithOps == {"Add", "Sub", "Mul", "Div"}

f64_arith(a, op, b) ==
    CASE op = "Add" -> FloatResult(f64_add(a, b))
      [] op = "Sub" -> FloatResult(f64_sub(a, b))
      [] op = "Mul" -> FloatResult(f64_mul(a, b))
      [] op = "Div" -> FloatResult(f64_div(a, b))

\* A match that also compares an Int with a Float, promoting the Int.
binary_op_comparing_mixed(l, op, r) ==
    CASE l.t = "Int" /\ r.t = "Int" /\ op = "Add" -> IntResult(l.i + r.i)
      [] l.t = "Int" /\ r.t = "Int" /\ op = "Sub" -> IntResult(l.i - r.i)
      [] l.t = "Int" /\ r.t = "Int" /\ op = "Mul" -> IntResult(l.i * r.i)
      [] l.t = "Int" /\ r.t = "Int" /\ op = "Div" ->
            IF r.i = 0 THEN PanicVal ELSE IntResult(i64_div(l.i, r.i))
      [] l.t = "Int" /\ r.t = "Int" /\ op = "Lt" -> OkVal(BoolV(l.i < r.i))
      [] l.t = "Int" /\ r.t = "Int" /\ op = "Gt" -> OkVal(BoolV(l.i > r.i))
      [] l.t = "Int" /\ r.t = "Int" /\ op = "Eq" -> OkVal(BoolV(l.i = r.i))
      [] l.t = "Int" /\ r.t = "Float" /\ op \in ArithOps -> f64_arith(as_f64(l.i), op, r)
      [] l.t = "Float" /\ r.t = "Int" /\ op \in ArithOps -> f64_arith(l, op, as_f64(r.i))
      [] l.t = "Float" /\ r.t = "Float" /\ op \in ArithOps -> f64_arith(l, op, r)
      [] l.t = "Float" /\ r.t = "Float" /\ op = "Lt" -> OkVal(BoolV(f64_lt(l, r)))
      [] l.t = "Float" /\ r.t = "Float" /\ op = "Gt" -> OkVal(BoolV(f64_lt(r, l)))
      [] l.t = "Float" /\ r.t = "Float" /\ op = "Eq" -> OkVal(BoolV(f64_eq(l, r)))
      [] l.t = "Int" /\ r.t = "Float" /\ op = "Lt" -> OkVal(BoolV(f64_lt(as_f64(l.i), r)))
      [] l.t = "Float" /\ r.t = "Int" /\ op = "Lt" -> OkVal(BoolV(f64_lt(l, as_f64(r.i))))
      [] l.t = "Str" /\ r.t = "Str" /\ op = "Add" -> OkVal(StrV(l.s \o r.s))
      [] l.t = "Bool" /\ r.t = "Bool" /\ op = "And" -> OkVal(BoolV(l.b /\ r.b))
      [] l.t = "Bool" /\ r.t = "Bool" /\ op = "Or" -> OkVal(BoolV(l.b \/ r.b))
      [] OTHER -> PanicVal

\* interpreter.rs 95-131: the match on (left_val, op, right_val).
binary_op(l, op, r) ==
    CASE l.t = "Int" /\ r.t = "Int" /\ op = "Add" -> IntResult(l.i + r.i)
      [] l.t = "Int" /\ r.t = "Int" /\ op = "Sub" -> IntResult(l.i - r.i)
      [] l.t = "Int" /\ r.t = "Int" /\ op = "Mul" -> IntResult(l.i * r.i)
      [] l.t = "Int" /\ r.t = "Int" /\ op = "Div" ->
            IF r.i = 0 THEN PanicVal ELSE IntResult(i64_div(l.i, r.i))
      [] l.t = "Int" /\ r.t = "Int" /\ op = "Lt" -> OkVal(BoolV(l.i < r.i))
      [] l.t = "Int" /\ r.t = "Int" /\ op = "Gt" -> OkVal(BoolV(l.i > r.i))
      [] l.t = "Int" /\ r.t = "Int" /\ op = "Eq" -> OkVal(BoolV(l.i = r.i))
      [] l.t = "Int" /\ r.t = "Float" /\ op \in ArithOps -> f64_arith(as_f64(l.i), op, r)
      [] l.t = "Float" /\ r.t = "Int" /\ op \in ArithOps -> f64_arith(l, op, as_f64(r.i))
      [] l.t = "Float" /\ r.t = "Float" /\ op \in ArithOps -> f64_arith(l, op, r)
      [] l.t = "Float" /\ r.t = "Float" /\ op = "Lt" -> OkVal(BoolV(f64_lt(l, r)))
      [] l.t = "Float" /\ r.t = "Float" /\ op = "Gt" -> OkVal(BoolV(f64_lt(r, l)))
      [] l.t = "Float" /\ r.t = "Float" /\ op = "Eq" -> OkVal(BoolV(f64_eq(l, r)))
      [] l.t = "Str" /\ r.t = "Str" /\ op = "Add" -> OkVal(StrV(l.s \o r.s))
      [] l.t = "Bool" /\ r.t = "Bool" /\ op = "And" -> OkVal(BoolV(l.b /\ r.b))
      [] l.t = "Bool" /\ r.t = "Bool" /\ op = "Or" -> OkVal(BoolV(l.b \/ r.b))
      [] OTHER -> PanicVal

\* interpreter.rs 175-180: the match on (op, val).
unary_op(op, v) ==
    CASE op = "Neg" /\ v.t = "Int" -> IntResult(-v.i)
      [] op = "Neg" /\ v.t = "Float" -> OkVal(f64_neg(v))
      [] op = "Not" /\ v.t = "Bool" -> OkVal(BoolV(~v.b))
      [] OTHER -> PanicVal

\* interpreter.rs 60-66: the println closure returns Unit (its output is host I/O).
native_call(f, arg_values) == Unit

(***************************************************************************)
(* The evaluator (interpreter.rs 80-252).  A result is                     *)
(*   [st, val, env, log]: st is "ok", "panic" or "bound"; env is the       *)
(*   environment the `&mut Environment` argument points to afterwards;     *)
(*   log is the history so far.  History entries are written in post-order *)
(*   and n is the number of entries written while the block or call ran.   *)
(***************************************************************************)
R(st, val, e, log) == [st |-> st, val |-> val, env |-> e, log |-> log]

AssignEvent(name, value) == [k |-> "assign", name |-> name, value |-> value]

BlockEvent(stmts, tail, before, written, after, n) ==
    [k |-> "block", statements |-> stmts, tail |-> tail,
     before |-> before, written |-> written, after |-> after, n |-> n]

CallEvent(name, params, arg_values, env_args, func_env, env_ret, n) ==
    [k |-> "call", name |-> name, params |-> params, arg_values |-> arg_values,
     env_args |-> env_args, func_env |-> func_env, env_ret |-> env_ret, n |-> n]

\* A write-back that forgets the locals of the block.
propagate_all(parent, block_env, local_vars) ==
    [n \in DOMAIN parent |-> IF contains_key(block_env, n) THEN block_env[n] ELSE parent[n]]

\* interpreter.rs 241-246: copy back what the block changed in names of the parent.
propagate(parent, block_env, local_vars) ==
    [n \in DOMAIN parent |->
        IF contains_key(block_env, n) /\ n \notin local_vars
        THEN block_env[n] ELSE parent[n]]

\* interpreter.rs 163-166: clone the caller's environment and define the parameters.
RECURSIVE bind_from(_, _, _, _)
bind_from(func_env, params, arg_values, i) ==
    IF i > Len(params) THEN func_env
    ELSE bind_from(define(func_env, params[i], arg_values[i]), params, arg_values, i + 1)

\* A callee that starts from a fresh environment instead of the caller's.
bind_params_fresh(caller_env, params, arg_values) ==
    bind_from(Environment_new, params, arg_values, 1)

bind_params(caller_env, params, arg_values) == bind_from(caller_env, params, arg_values, 1)

\* A call whose body runs against the caller's environment itself.
after_call_shared(caller_env, body_result) == body_result

\* interpreter.rs 167: the body runs against func_env, the caller keeps its own env.
after_call(caller_env, body_result) == [body_result EXCEPT !.env = caller_env]

\* Every recursive call of the evaluator goes through Eval, which hands the
\* call to the function it names; the operators below are those functions.
RECURSIVE Eval(_)

EvalExpression(expr, e, log, fuel) == Eval(<<"eval_expression", expr, e, log, fuel>>)
EvalStatement(stmt, e, log, fuel) == Eval(<<"eval_statement", stmt, e, log, fuel>>)
EvalBlock(stmts, tail_expr, e, log, fuel) ==
    Eval(<<"eval_block", stmts, tail_expr, e, log, fuel>>)
EvalArgs(args, i, arg_values, e, log, fuel) ==
    Eval(<<"eval_args", args, i, arg_values, e, log, fuel>>)
BlockStatements(stmts, i, block_env, local_vars, log, fuel) ==
    Eval(<<"block_statements", stmts, i, block_env, local_vars, log, fuel>>)
WhileLoop(condition, body, e, log, fuel) ==
    Eval(<<"while_loop", condition, body, e, log, fuel>>)


\* interpreter.rs 149-152: `for arg_expr in args`, left to right, in the caller's env.
eval_args(args, i, arg_values, e, log, fuel) ==
    IF i > Len(args) THEN [st |-> "ok", vals |-> arg_values, env |-> e, log |-> log]
    ELSE LET a == EvalExpression(args[i], e, log, fuel)
         IN  IF a.st # "ok"
             THEN [st |-> a.st, vals |-> arg_values, env |-> a.env, log |-> a.log]
             ELSE EvalArgs(args, i + 1, Append(arg_values, a.val), a.env, a.log, fuel)

\* A call that ignores the arguments beyond the parameters.
call_function_extra_args_ignored(name, func_val, a, log0, fuel) ==
    CASE func_val.t = "Function" ->
            IF Len(a.vals) < Len(func_val.params) THEN R("panic", Unit, a.env, a.log)
            ELSE LET func_env == bind_params(a.env, func_val.params, a.vals)
                     b == EvalExpression(func_val.body, func_env, a.log, fuel)
                     r == after_call(a.env, b)
                 IN  IF b.st # "ok" THEN r
                     ELSE [r EXCEPT !.log = Append(b.log,
                              CallEvent(name, func_val.params, a.vals, a.env, func_env, r.env,
                                        Len(b.log) - Len(log0)))]
      [] func_val.t = "NativeFunc" -> R("ok", native_call(func_val.f, a.vals), a.env, a.log)
      [] OTHER -> R("panic", Unit, a.env, a.log)

\* interpreter.rs 153-171: the match on func_val once the arguments are evaluated.
call_function(name, func_val, a, log0, fuel) ==
    CASE func_val.t = "Function" ->
            IF Len(a.vals) # Len(func_val.params) THEN R("panic", Unit, a.env, a.log)
            ELSE LET func_env == bind_params(a.env, func_val.params, a.vals)
                     b == EvalExpression(func_val.body, func_env, a.log, fuel)
                     r == after_call(a.env, b)
                 IN  IF b.st # "ok" THEN r
                     ELSE [r EXCEPT !.log = Append(b.log,
                              CallEvent(name, func_val.params, a.vals, a.env, func_env, r.env,
                                        Len(b.log) - Len(log0)))]
      [] func_val.t = "NativeFunc" -> R("ok", native_call(func_val.f, a.vals), a.env, a.log)
      [] OTHER -> R("panic", Unit, a.env, a.log)

\* An evaluator whose `&&` and `||` leave the right operand alone when the left
\* one decides the result.
eval_expression_short_circuit(expr, e, log, fuel) ==
    IF fuel = 0 THEN R("bound", Unit, e, log)
    ELSE
    CASE expr.e = "Literal" -> R("ok", expr.lit, e, log)
      [] expr.e = "Variable" ->
            IF contains_key(e, expr.name) THEN R("ok", e[expr.name], e, log)
            ELSE R("panic", Unit, e, log)
      [] expr.e = "Binary" ->
            LET l == EvalExpression(expr.lhs, e, log, fuel - 1)
            IN  IF l.st # "ok" THEN l
                ELSE IF (expr.op = "And" /\ l.val = BoolV(FALSE))
                        \/ (expr.op = "Or" /\ l.val = BoolV(TRUE))
                THEN l
                ELSE LET r == EvalExpression(expr.rhs, l.env, l.log, fuel - 1)
                     IN  IF r.st # "ok" THEN r
                         ELSE LET b == binary_op(l.val, expr.op, r.val)
                              IN  R(b.st, b.val, r.env, r.log)
      [] expr.e = "Block" -> EvalBlock(expr.statements, expr.tail, e, log, fuel - 1)
      [] expr.e = "If" ->
            LET c == EvalExpression(expr.condition, e, log, fuel - 1)
            IN  IF c.st # "ok" THEN c
                ELSE IF c.val.t = "Bool" /\ c.val.b
                     THEN EvalExpression(expr.then_branch, c.env, c.log, fuel - 1)
                ELSE IF expr.else_branch # <<>>
                     THEN EvalExpression(expr.else_branch[1], c.env, c.log, fuel - 1)
                ELSE R("ok", Unit, c.env, c.log)
      [] expr.e = "Call" ->
            IF ~contains_key(e, expr.name) THEN R("panic", Unit, e, log)
            ELSE LET func_val == e[expr.name]
                     a == EvalArgs(expr.args, 1, <<>>, e, log, fuel - 1)
                 IN  IF a.st # "ok" THEN R(a.st, Unit, a.env, a.log)
                     ELSE call_function(expr.name, func_val, a, log, fuel - 1)
      [] expr.e = "Unary" ->
            LET v == EvalExpression(expr.rhs, e, log, fuel - 1)
            IN  IF v.st # "ok" THEN v
                ELSE LET u == unary_op(expr.op, v.val)
                     IN  R(u.st, u.val, v.env, v.log)

\* An evaluator whose `if` insists on a Bool condition, as `while` does.
eval_expression_strict_if(expr, e, log, fuel) ==
    IF fuel = 0 THEN R("bound", Unit, e, log)
    ELSE
    CASE expr.e = "Literal" -> R("ok", expr.lit, e, log)
      [] expr.e = "Variable" ->
            IF contains_key(e, expr.name) THEN R("ok", e[expr.name], e, log)
            ELSE R("panic", Unit, e, log)
      [] expr.e = "Binary" ->
            LET l == EvalExpression(expr.lhs, e, log, fuel - 1)
            IN  IF l.st # "ok" THEN l
                ELSE LET r == EvalExpression(expr.rhs, l.env, l.log, fuel - 1)
                     IN  IF r.st # "ok" THEN r
                         ELSE LET b == binary_op(l.val, expr.op, r.val)
                              IN  R(b.st, b.val, r.env, r.log)
      [] expr.e = "Block" -> EvalBlock(expr.statements, expr.tail, e, log, fuel - 1)
      [] expr.e = "If" ->
            LET c == EvalExpression(expr.condition, e, log, fuel - 1)
            IN  IF c.st # "ok" THEN c
                ELSE IF c.val.t # "Bool" THEN R("panic", Unit, c.env, c.log)
                ELSE IF c.val.t = "Bool" /\ c.val.b
                     THEN EvalExpression(expr.then_branch, c.env, c.log, fuel - 1)
                ELSE IF expr.else_branch # <<>>
                     THEN EvalExpression(expr.else_branch[1], c.env, c.log, fuel - 1)
                ELSE R("ok", Unit, c.env, c.log)
      [] expr.e = "Call" ->
            IF ~contains_key(e, expr.name) THEN R("panic", Unit, e, log)
            ELSE LET func_val == e[expr.name]
                     a == EvalArgs(expr.args, 1, <<>>, e, log, fuel - 1)
                 IN  IF a.st # "ok" THEN R(a.st, Unit, a.env, a.log)
                     ELSE call_function(expr.name, func_val, a, log, fuel - 1)
      [] expr.e = "Unary" ->
            LET v == EvalExpression(expr.rhs, e, log, fuel - 1)
            IN  IF v.st # "ok" THEN v
                ELSE LET u == unary_op(expr.op, v.val)
                     IN  R(u.st, u.val, v.env, v.log)

\* interpreter.rs 80-183
eval_expression(expr, e, log, fuel) ==
    IF fuel = 0 THEN R("bound", Unit, e, log)
    ELSE
    CASE expr.e = "Literal" -> R("ok", expr.lit, e, log)
      [] expr.e = "Variable" ->
            IF contains_key(e, expr.name) THEN R("ok", e[expr.name], e, log)
            ELSE R("panic", Unit, e, log)
      [] expr.e = "Binary" ->
            LET l == EvalExpression(expr.lhs, e, log, fuel - 1)
            IN  IF l.st # "ok" THEN l
                ELSE LET r == EvalExpression(expr.rhs, l.env, l.log, fuel - 1)
                     IN  IF r.st # "ok" THEN r
                         ELSE LET b == binary_op(l.val, expr.op, r.val)
                              IN  R(b.st, b.val, r.env, r.log)
      [] expr.e = "Block" -> EvalBlock(expr.statements, expr.tail, e, log, fuel - 1)
      [] expr.e = "If" ->
            LET c == EvalExpression(expr.condition, e, log, fuel - 1)
            IN  IF c.st # "ok" THEN c
                ELSE IF c.val.t = "Bool" /\ c.val.b
                     THEN EvalExpression(expr.then_branch, c.env, c.log, fuel - 1)
                ELSE IF expr.else_branch # <<>>
                     THEN EvalExpression(expr.else_branch[1], c.env, c.log, fuel - 1)
                ELSE R("ok", Unit, c.env, c.log)
      [] expr.e = "Call" ->
            IF ~contains_key(e, expr.name) THEN R("panic", Unit, e, log)
            ELSE LET func_val == e[expr.name]
                     a == EvalArgs(expr.args, 1, <<>>, e, log, fuel - 1)
                 IN  IF a.st # "ok" THEN R(a.st, Unit, a.env, a.log)
                     ELSE call_function(expr.name, func_val, a, log, fuel - 1)
      [] expr.e = "Unary" ->
            LET v == EvalExpression(expr.rhs, e, log, fuel - 1)
            IN  IF v.st # "ok" THEN v
                ELSE LET u == unary_op(expr.op, v.val)
                     IN  R(u.st, u.val, v.env, v.log)

\* A loop that runs its body at most once, as an `if` would.
while_loop_once(condition, body, e, log, fuel) ==
    IF fuel = 0 THEN R("bound", Unit, e, log)
    ELSE LET c == EvalExpression(condition, e, log, fuel - 1)
         IN  IF c.st # "ok" THEN c
             ELSE IF c.val.t # "Bool" THEN R("panic", Unit, c.env, c.log)
             ELSE IF ~c.val.b THEN R("ok", Unit, c.env, c.log)
             ELSE LET b == EvalExpression(body, c.env, c.log, fuel - 1)
                  IN  IF b.st # "ok" THEN b ELSE R("ok", Unit, b.env, b.log)

\* interpreter.rs 211-222: the `loop` of Stmt::While.
while_loop(condition, body, e, log, fuel) ==
    IF fuel = 0 THEN R("bound", Unit, e, log)
    ELSE LET c == EvalExpression(condition, e, log, fuel - 1)
         IN  IF c.st # "ok" THEN c
             ELSE IF c.val.t # "Bool" THEN R("panic", Unit, c.env, c.log)
             ELSE IF ~c.val.b THEN R("ok", Unit, c.env, c.log)
             ELSE LET b == EvalExpression(body, c.env, c.log, fuel - 1)
                  IN  IF b.st # "ok" THEN b
                      ELSE WhileLoop(condition, body, b.env, b.log, fuel - 1)

\* An expression statement that hands its value on.
expression_value_kept(v) == v

\* interpreter.rs 197-200: Stmt::Expression evaluates for effect, its value is dropped.
expression_value(v) == Unit

\* interpreter.rs 185-226
eval_statement(stmt, e, log, fuel) ==
    CASE stmt.s = "Let" ->
            LET v == EvalExpression(stmt.expr, e, log, fuel)
            IN  IF v.st # "ok" THEN v
                ELSE R("ok", Unit, define(v.env, stmt.name, v.val), v.log)
      [] stmt.s = "Fn" ->
            R("ok", Unit, define(e, stmt.name, FunctionV(stmt.params, stmt.body)), log)
      [] stmt.s = "Expression" ->
            LET v == EvalExpression(stmt.expr, e, log, fuel)
            IN  IF v.st # "ok" THEN v ELSE R("ok", expression_value(v.val), v.env, v.log)
      [] stmt.s = "ImplicitReturn" -> EvalExpression(stmt.expr, e, log, fuel)
      [] stmt.s = "Assign" ->
            LET v == EvalExpression(stmt.expr, e, log, fuel)
            IN  IF v.st # "ok" THEN v
                ELSE IF ~contains_key(v.env, stmt.name) THEN R("panic", Unit, v.env, v.log)
                ELSE R("ok", Unit, define(v.env, stmt.name, v.val),
                       Append(v.log, AssignEvent(stmt.name, v.val)))
      [] stmt.s = "While" -> WhileLoop(stmt.condition, stmt.body, e, log, fuel)

\* A statement loop that takes the names of `fn` statements for locals too.
block_statements_fn_local(stmts, i, block_env, local_vars, log, fuel) ==
    IF i > Len(stmts)
    THEN [st |-> "ok", env |-> block_env, local_vars |-> local_vars, log |-> log]
    ELSE LET locals == IF stmts[i].s \in {"Let", "Fn"} THEN local_vars \cup {stmts[i].name}
                       ELSE local_vars
             r == EvalStatement(stmts[i], block_env, log, fuel)
         IN  IF r.st # "ok"
             THEN [st |-> r.st, env |-> r.env, local_vars |-> locals, log |-> r.log]
             ELSE BlockStatements(stmts, i + 1, r.env, locals, r.log, fuel)

\* interpreter.rs 235-240: `for stmt in statements`, collecting the names of the lets.
block_statements(stmts, i, block_env, local_vars, log, fuel) ==
    IF i > Len(stmts)
    THEN [st |-> "ok", env |-> block_env, local_vars |-> local_vars, log |-> log]
    ELSE LET locals == IF stmts[i].s = "Let" THEN local_vars \cup {stmts[i].name}
                       ELSE local_vars
             r == EvalStatement(stmts[i], block_env, log, fuel)
         IN  IF r.st # "ok"
             THEN [st |-> r.st, env |-> r.env, local_vars |-> locals, log |-> r.log]
             ELSE BlockStatements(stmts, i + 1, r.env, locals, r.log, fuel)

\* A block that writes back after its last expression has been evaluated.
eval_block_write_back_last(stmts, tail_expr, e, log, fuel) ==
    IF fuel = 0 THEN R("bound", Unit, e, log)
    ELSE
    LET b == BlockStatements(stmts, 1, e, {}, log, fuel)
    IN  IF b.st # "ok" THEN R(b.st, Unit, e, b.log)
        ELSE LET t == IF tail_expr # <<>>
                      THEN EvalExpression(tail_expr[1], b.env, b.log, fuel - 1)
                      ELSE R("ok", Unit, b.env, b.log)
                 parent == propagate(e, t.env, b.local_vars)
             IN  IF t.st # "ok" THEN R(t.st, Unit, parent, t.log)
                 ELSE R("ok", t.val, parent,
                        Append(t.log, BlockEvent(stmts, tail_expr, e, b.env, parent,
                                                 Len(t.log) - Len(log))))

\* A block whose last expression is evaluated in the enclosing environment.
eval_block_tail_outside(stmts, tail_expr, e, log, fuel) ==
    IF fuel = 0 THEN R("bound", Unit, e, log)
    ELSE
    LET b == BlockStatements(stmts, 1, e, {}, log, fuel)
    IN  IF b.st # "ok" THEN R(b.st, Unit, e, b.log)
        ELSE LET parent == propagate(e, b.env, b.local_vars)
                 t == IF tail_expr # <<>>
                      THEN EvalExpression(tail_expr[1], parent, b.log, fuel - 1)
                      ELSE R("ok", Unit, b.env, b.log)
             IN  IF t.st # "ok" THEN R(t.st, Unit, parent, t.log)
                 ELSE R("ok", t.val, parent,
                        Append(t.log, BlockEvent(stmts, tail_expr, e, b.env, parent,
                                                 Len(t.log) - Len(log))))

\* interpreter.rs 228-252
eval_block(stmts, tail_expr, e, log, fuel) ==
    IF fuel = 0 THEN R("bound", Unit, e, log)
    ELSE
    LET b == BlockStatements(stmts, 1, e, {}, log, fuel)
    IN  IF b.st # "ok" THEN R(b.st, Unit, e, b.log)
        ELSE LET parent == propagate(e, b.env, b.local_vars)
                 t == IF tail_expr # <<>>
                      THEN EvalExpression(tail_expr[1], b.env, b.log, fuel - 1)
                      ELSE R("ok", Unit, b.env, b.log)
             IN  IF t.st # "ok" THEN R(t.st, Unit, parent, t.log)
                 ELSE R("ok", t.val, parent,
                        Append(t.log, BlockEvent(stmts, tail_expr, e, b.env, parent,
                                                 Len(t.log) - Len(log))))

Eval(c) ==
    CASE c[1] = "eval_expression" -> eval_expression(c[2], c[3], c[4], c[5])
      [] c[1] = "eval_statement" -> eval_statement(c[2], c[3], c[4], c[5])
      [] c[1] = "eval_block" -> eval_block(c[2], c[3], c[4], c[5], c[6])
      [] c[1] = "eval_args" -> eval_args(c[2], c[3], c[4], c[5], c[6], c[7])
      [] c[1] = "block_statements" -> block_statements(c[2], c[3], c[4], c[5], c[6], c[7])
      [] c[1] = "while_loop" -> while_loop(c[2], c[3], c[4], c[5], c[6])

(***************************************************************************)
(* The programs the driver is run on: every program is one the parser can  *)
(* produce (an ImplicitReturn only as the last statement and never of a    *)
(* block or an `if`; the branches of an `if` and the bodies of `while` and *)
(* `fn` are blocks).                                                       *)
(***************************************************************************)
\* Blocks of the generated programs hold at most MaxBlockLen statements.
MaxBlockLen == 2

SeqsUpTo(S, n) == UNION {[1..k -> S] : k \in 0..n}

IntLit(i) == Literal(IntV(i))
True == Literal(BoolV(TRUE))
X == Variable("x")
Y == Variable("y")
XPlus1 == Binary(X, "Add", IntLit(1))
CallF == Call("f", <<>>)

\* `{ x = 3; }` and `if true { x = 4; }`
AssignBlock(i) == Block(<<Assign("x", IntLit(i))>>, <<>>)
IfAssign(i) == If(True, AssignBlock(i), <<>>)

\* The items of a generated block.
Items ==
    { Let("x", IntLit(2)), Let("y", IntLit(1)),
      Assign("x", IntLit(2)), Assign("x", XPlus1),
      Expression(CallF),
      Expression(AssignBlock(3)) }

\* The trailing expressions of a generated block (<<>>: none).
Tails == { <<>>, <<X>>, <<Y>>, <<CallF>>, <<IfAssign(4)>> }

Blocks == {Block(ss, t) : ss \in SeqsUpTo(Items, MaxBlockLen), t \in Tails}

\* The generated definitions of f: reads of free names, an assignment to a name
\* of the caller and to a parameter, lets, a recursion on the parameter.
FnStmts ==
    { Fn("f", <<>>, Block(<<>>, <<Binary(X, "Add", Y)>>)),
      Fn("f", <<>>, Block(<<Assign("x", IntLit(7))>>, <<X>>)),
      Fn("f", <<"x">>, Block(<<Assign("x", IntLit(7))>>, <<X>>)),
      Fn("f", <<>>, Block(<<Let("y", IntLit(8)), Let("z", IntLit(9))>>, <<Y>>)),
      Fn("f", <<"x">>,
         Block(<<>>, <<If(Binary(X, "Lt", IntLit(2)),
                          Block(<<>>, <<X>>),
                          <<Block(<<>>, <<Call("f", <<Binary(X, "Sub", IntLit(1))>>)>>)>>)>>)),
      Fn("f", <<"y", "x">>, Block(<<>>, <<Binary(X, "Add", Y)>>)) }

\* Calls of f whose arguments are literals or a block with an assignment.
CallSites ==
    { CallF, Call("f", <<IntLit(2)>>), Call("f", <<AssignBlock(3)>>),
      Call("f", <<Block(<<Assign("x", IntLit(3))>>, <<X>>), X>>), Call("x", <<>>) }

XLt3 == Binary(X, "Lt", IntLit(3))

LetX == Let("x", IntLit(1))

\* A block as the value of a let, after nothing, after `let x = 1;` and after a
\* definition of f that reads the caller's names or assigns one.
BlockPrograms ==
    {p \o <<Let("r", b)>> :
        p \in {<<>>, <<LetX>>}
              \cup {<<LetX, fn>> : fn \in {g \in FnStmts : g.params = <<>>}},
        b \in Blocks}

\* A call of f, as a statement and as the value of a let.
CallPrograms ==
    {<<LetX, fn, st>> :
        fn \in FnStmts,
        st \in {Let("r", c) : c \in CallSites} \cup {Expression(c) : c \in CallSites}}

\* Programs that end with each kind of statement.
ResultPrograms ==
    {p \o q :
        p \in { <<>>, <<LetX>>, <<LetX, Let("r", Block(<<>>, <<XPlus1>>))>>,
                <<LetX, Expression(Block(<<Assign("x", XPlus1)>>, <<X>>))>> },
        q \in { <<>>,
                <<ImplicitReturn(X)>>,
                <<ImplicitReturn(Variable("r"))>>,
                <<Assign("x", IntLit(9))>>,
                <<Fn("f", <<>>, Block(<<>>, <<X>>))>>,
                <<While(XLt3, Block(<<Assign("x", XPlus1)>>, <<X>>))>>,
                <<Expression(If(XLt3, AssignBlock(3), <<>>))>>,
                <<Expression(XPlus1)>> }}

\* Largest argument of fib: a call of fib(k) nests 7 * k + 6 evaluations.
MaxFibArg == 3

N == Variable("n")

\* fn fib(n) { if n < 2 { n } else { fib(n-1) + fib(n-2) } }
FibFn ==
    Fn("fib", <<"n">>,
       Block(<<>>,
             <<If(Binary(N, "Lt", IntLit(2)),
                  Block(<<>>, <<N>>),
                  <<Block(<<>>, <<Binary(Call("fib", <<Binary(N, "Sub", IntLit(1))>>),
                                         "Add",
                                         Call("fib", <<Binary(N, "Sub", IntLit(2))>>))>>)>>)>>))

\* fn fib(n) { ... } fib(k)
FibProgram(k) == <<FibFn, ImplicitReturn(Call("fib", <<IntLit(k)>>))>>

FibPrograms == { FibProgram(k) : k \in 0..MaxFibArg }

\* Largest number of iterations of the counted loop.
MaxLoop == 5

Incr(name) == Assign(name, Binary(Variable(name), "Add", IntLit(1)))

\* let x = k; let r = 0; let c = 0; let b = 0;
\* while { c += 1; x > 0 } { b += 1; r += x; x -= 1; } r
\* c counts the evaluations of the condition and b those of the body.
WhileProgram(k) ==
    <<Let("x", IntLit(k)), Let("r", IntLit(0)), Let("c", IntLit(0)), Let("b", IntLit(0)),
      While(Block(<<Incr("c")>>, <<Binary(X, "Gt", IntLit(0))>>),
            Block(<<Incr("b"),
                    Assign("r", Binary(Variable("r"), "Add", X)),
                    Assign("x", Binary(X, "Sub", IntLit(1)))>>, <<>>)),
      ImplicitReturn(Variable("r"))>>

\* Conditions that do not evaluate to a Bool.
NotBoolConditions ==
    {IntLit(0), IntLit(1), Literal(StrV("s")), Literal(FloatV(1, 2)), Block(<<>>, <<>>)}

\* let b = 0; while cond { b += 1; } b
WhileNotBool(cond) ==
    <<Let("b", IntLit(0)), While(cond, Block(<<Incr("b")>>, <<>>)),
      ImplicitReturn(Variable("b"))>>

\* let x = true; let b = 0; while x { b += 1; x = 1; } b
\* the second evaluation of the condition gives an Int.
WhileTurnsInt ==
    <<Let("x", True), Let("b", IntLit(0)),
      While(X, Block(<<Incr("b"), Assign("x", IntLit(1))>>, <<>>)),
      ImplicitReturn(Variable("b"))>>

WhilePrograms ==
    { WhileProgram(k) : k \in 0..MaxLoop }
    \cup { WhileNotBool(cond) : cond \in NotBoolConditions }
    \cup { WhileTurnsInt }

\* Operand expressions, with the variant of the value each evaluates to.
Operands ==
    { [ex |-> IntLit(2), t |-> "Int"], [ex |-> IntLit(0), t |-> "Int"],
      [ex |-> Literal(FloatV(1, 2)), t |-> "Float"], [ex |-> Literal(FloatV(2, 1)), t |-> "Float"],
      [ex |-> True, t |-> "Bool"], [ex |-> Literal(BoolV(FALSE)), t |-> "Bool"],
      [ex |-> Literal(StrV("a")), t |-> "Str"], [ex |-> Literal(StrV("b")), t |-> "Str"],
      [ex |-> Block(<<>>, <<>>), t |-> "Unit"],
      [ex |-> Variable("println"), t |-> "NativeFunc"] }

BinaryOps == {"Add", "Sub", "Mul", "Div", "Lt", "Gt", "Eq", "And", "Or"}

\* a op b
BinaryProgram(a, op, b) == <<ImplicitReturn(Binary(a, op, b))>>

BinaryPrograms ==
    { BinaryProgram(a.ex, op, b.ex) : a \in Operands, op \in BinaryOps, b \in Operands }

\* Largest number of arguments of a call.
MaxArgs == 2

\* fn name(p1, .., pk) { x = 9; 7 }: the body leaves a trace when it runs.
MarkingFn(name, params) == Fn(name, params, Block(<<Assign("x", IntLit(9))>>, <<IntLit(7)>>))

\* What the called name is bound to: nothing (g), an Int, a Str, a Bool, the
\* native println, or a function of 0, 1 or 2 parameters.
Callees == {"g", "x", "s", "b", "println", "f0", "f1", "f2"}

Arity(name) == CASE name = "f0" -> 0 [] name = "f1" -> 1 [] name = "f2" -> 2

\* let x = 0; let s = "s"; let b = true; fn f0() {..} fn f1(p) {..} fn f2(p, q) {..}
\* name(1, .., n)
CallCase(name, n) ==
    <<Let("x", IntLit(0)), Let("s", Literal(StrV("s"))), Let("b", True),
      MarkingFn("f0", <<>>), MarkingFn("f1", <<"p">>), MarkingFn("f2", <<"p", "q">>),
      ImplicitReturn(Call(name, [i \in 1..n |-> IntLit(i)]))>>

CallCases == { CallCase(name, n) : name \in Callees, n \in 0..MaxArgs }

\* Right-hand sides: 5, { x = 9; 5 } (which leaves a trace), an undefined y.
RightSides == {IntLit(5), Block(<<Assign("x", IntLit(9))>>, <<IntLit(5)>>), Y}

\* let x = 0; let z = 1; z = rhs; x      (target bound)
\* let x = 0; let w = 1; z = rhs; x      (target not bound)
AssignCase(bound, rhs) ==
    <<Let("x", IntLit(0)), Let(IF bound THEN "z" ELSE "w", IntLit(1)),
      Assign("z", rhs), ImplicitReturn(X)>>

AssignPrograms == { AssignCase(bound, rhs) : bound \in BOOLEAN, rhs \in RightSides }

Programs ==
    BlockPrograms \cup CallPrograms \cup ResultPrograms \cup FibPrograms \cup WhilePrograms
    \cup BinaryPrograms \cup CallCases \cup AssignPrograms

(***************************************************************************)
(* The driver (main.rs 14-29 past the parse).                              *)
(***************************************************************************)
ParseIdle ==
    /\ stream = <<>>
    /\ parser = [pos |-> 0, current_token |-> [k |-> "Eof"]]
    /\ statements = <<>>
    /\ parse_status = "idle"
    /\ parse_progress = <<>>

LexIdle ==
    /\ source = <<>>
    /\ input = <<>>
    /\ token = [k |-> "Eof"]
    /\ lex_status = "idle"
    /\ calls = 0

EvalIdle ==
    /\ program = <<>>
    /\ pc = 1
    /\ env = EmptyEnv
    /\ last_value = Unit
    /\ run_status = "idle"
    /\ events = <<>>

InitEval ==
    /\ program \in Programs
    /\ pc = 1
    /\ env = Environment_new
    /\ last_value = Unit
    /\ run_status = "running"
    /\ events = <<>>
    /\ ParseIdle
    /\ LexIdle

\* main.rs 24: last_value = eval_statement(stmt, &mut env)
next_last_value(last, v) == v

\* main.rs 23-25: one iteration of `for stmt in program`.
run_statement ==
    /\ run_status = "running"
    /\ pc <= Len(program)
    /\ \E r \in { EvalStatement(program[pc], env, <<>>, EvalFuel) } :
           /\ events' = r.log
           /\ IF r.st = "ok"
              THEN /\ env' = r.env
                   /\ last_value' = next_last_value(last_value, r.val)
                   /\ pc' = pc + 1
                   /\ UNCHANGED run_status
              ELSE /\ run_status' = r.st
                   /\ UNCHANGED <<env, last_value, pc>>
    /\ UNCHANGED <<program, parseVars, lexVars>>

\* main.rs 26-28: the loop is over; last_value is printed unless it is Unit.
finish ==
    /\ run_status = "running"
    /\ pc > Len(program)
    /\ run_status' = "done"
    /\ UNCHANGED <<program, pc, env, last_value, events, parseVars, lexVars>>

NextEval == run_statement \/ finish

SpecEval == InitEval /\ [][NextEval]_vars

(***************************************************************************)
(* Properties of the evaluator, checked under SpecEval.                    *)
(***************************************************************************)
RECURSIVE ExprLets(_)
RECURSIVE StmtLets(_)

\* The names declared by a `let` anywhere inside an expression / a statement.
ExprLets(ex) ==
    CASE ex.e = "Unary" -> ExprLets(ex.rhs)
      [] ex.e = "Binary" -> ExprLets(ex.lhs) \cup ExprLets(ex.rhs)
      [] ex.e = "Call" -> UNION {ExprLets(ex.args[i]) : i \in DOMAIN ex.args}
      [] ex.e = "Block" ->
            UNION ({StmtLets(ex.statements[i]) : i \in DOMAIN ex.statements}
                   \cup {ExprLets(ex.tail[i]) : i \in DOMAIN ex.tail})
      [] ex.e = "If" ->
            ExprLets(ex.condition) \cup ExprLets(ex.then_branch)
            \cup UNION {ExprLets(ex.else_branch[i]) : i \in DOMAIN ex.else_branch}
      [] OTHER -> {}

StmtLets(st) ==
    CASE st.s = "Let" -> {st.name} \cup ExprLets(st.expr)
      [] st.s = "Fn" -> ExprLets(st.body)
      [] st.s = "While" -> ExprLets(st.condition) \cup ExprLets(st.body)
      [] OTHER -> ExprLets(st.expr)

\* The names of the Let statements that are direct items of a block.
DirectLets(stmts) == {stmts[i].name : i \in {j \in DOMAIN stmts : stmts[j].s = "Let"}}

BlockEvents == {j \in DOMAIN events : events[j].k = "block"}
CallEvents == {j \in DOMAIN events : events[j].k = "call"}

\* The history entries written while the block or call of entry j ran.
Span(j) == (j - events[j].n) .. (j - 1)

\* Entry i was written by the body of a function called while entry j ran.
InsideCall(i, j) == \E c \in CallEvents : c \in Span(j) /\ i \in Span(c)

\* The assignments to x made by the code of the block of entry j itself.
AssignsIn(x, j) ==
    {i \in Span(j) : events[i].k = "assign" /\ events[i].name = x /\ ~InsideCall(i, j)}

Last(S) == CHOOSE i \in S : \A k \in S : k <= i

BlockOf(j) == Block(events[j].statements, events[j].tail)

\* C1: assignment propagation.  For every block that has returned, and every
\* name x that was bound in the enclosing environment when the block was
\* entered, that no `let x` inside the block declares and that the block
\* assigned (in a direct statement, a nested block or the trailing
\* expression): x in the enclosing environment equals the last value assigned.
C1_AssignmentPropagation ==
    \A j \in BlockEvents :
        \A x \in DOMAIN events[j].before :
            (x \notin ExprLets(BlockOf(j)) /\ AssignsIn(x, j) # {})
                => events[j].after[x] = events[Last(AssignsIn(x, j))].value

\* C2: let shadowing.  For every block that has returned and every name x
\* that a `let x` among the items of the block declares, the enclosing
\* environment binds x after the block exactly as before it: unbound if it
\* was unbound, the same value if it was bound.
C2_LetShadowing ==
    \A j \in BlockEvents :
        \A x \in DirectLets(events[j].statements) :
            /\ contains_key(events[j].after, x) <=> contains_key(events[j].before, x)
            /\ contains_key(events[j].before, x)
                 => events[j].after[x] = events[j].before[x]

\* A block with `let x` returned while its own x differed from the enclosing x
\* at the write-back, after the block had also assigned x.
C2_Witness ==
    \E j \in BlockEvents :
        /\ "x" \in DirectLets(events[j].statements)
        /\ contains_key(events[j].before, "x")
        /\ events[j].written["x"] # events[j].before["x"]
        /\ AssignsIn("x", j) # {}

\* C3: a call of a user function leaves the caller's environment as it was
\* right after the arguments were evaluated.
C3_CallLeavesCallerEnv ==
    \A j \in CallEvents : events[j].env_ret = events[j].env_args

\* A call returned whose body assigned a name of the caller and whose
\* parameters were bound to values the caller does not hold.
C3_Witness ==
    \E j \in CallEvents :
        /\ \E i \in Span(j) : events[i].k = "assign"
                              /\ contains_key(events[j].env_args, events[i].name)
        /\ events[j].func_env # events[j].env_args

ParamNames(ps) == {ps[i] : i \in DOMAIN ps}

\* The value the last parameter of that name was bound to.
ParamValue(ps, vals, n) == vals[Last({i \in DOMAIN ps : ps[i] = n})]

\* C4: dynamic scoping by clone-at-call.  The environment a function body
\* starts in is the caller's environment at the call (after the arguments)
\* extended with the parameters, the parameters shadowing the caller's names.
C4_CloneAtCall ==
    \A j \in CallEvents :
        LET c == events[j]
        IN  /\ DOMAIN c.func_env = DOMAIN c.env_args \cup ParamNames(c.params)
            /\ \A n \in DOMAIN c.func_env :
                  c.func_env[n] = IF n \in ParamNames(c.params)
                                  THEN ParamValue(c.params, c.arg_values, n)
                                  ELSE c.env_args[n]

\* A function returned that was called from a block and whose body started
\* with the `let` local y of that block in scope, y being unknown at top level.
C4_Witness ==
    \E j \in CallEvents :
        /\ contains_key(events[j].func_env, "y")
        /\ "y" \notin ParamNames(events[j].params)
        /\ ~contains_key(env, "y")
        /\ \E b \in BlockEvents : j \in Span(b) /\ "y" \in DirectLets(events[b].statements)

\* The value the driver must hold after running stmt in environment e.
StatementResult(stmt, e) ==
    IF stmt.s = "ImplicitReturn"
    THEN eval_expression(stmt.expr, e, <<>>, EvalFuel).val
    ELSE Unit

\* C5: program result.  After each statement the driver holds Unit when the
\* statement is a Let, Fn, Assign, While or Expression and the value of e when
\* it is ImplicitReturn(e), whatever it held before; it holds Unit before the
\* first statement, and the end of the loop does not change it.
C5_ProgramResult ==
    [][/\ pc = 1 => last_value = Unit
       /\ pc' = pc + 1 => last_value' = StatementResult(program[pc], env)
       /\ run_status' = "done" => last_value' = last_value]_vars

\* A program of several statements ended on an ImplicitReturn with a value.
C5_Witness ==
    /\ run_status = "done"
    /\ Len(program) >= 2
    /\ program[Len(program)].s = "ImplicitReturn"
    /\ last_value # Unit

(***************************************************************************)
(* Tokens (the variants of Token that parser.rs matches on).  Payloads     *)
(* keep the field names of the values: i for Int, n/d for Float, s for the *)
(* text of Str and Identifier.                                             *)
(***************************************************************************)
Tok(k) == [k |-> k]
IntTok(i) == [k |-> "Int", i |-> i]
FloatTok(n, d) == [k |-> "Float", n |-> n, d |-> d]
StrTok(s) == [k |-> "Str", s |-> s]
Identifier(name) == [k |-> "Identifier", s |-> name]
Eof == Tok("Eof")
Comment == Tok("Comment")

(***************************************************************************)
(* Parser (parser.rs).  A parser value p is                                *)
(*   toks  the tokens the lexer produces, in order (Eof follows forever),  *)
(*   pos   the index in toks of current_token (Len(toks) + 1 at Eof),      *)
(*   cur   Parser.current_token,                                           *)
(*   st    "ok", or "panic" once a panic! was reached,                     *)
(*   log   one entry per finished loop iteration: the loop, pos before and *)
(*         after the iteration, and st after it.                           *)
(* Every parse function returns Ret(p, v): the parser after the call and   *)
(* the Expr, Stmt or Vec it returns.  After a panic every function returns *)
(* at once and v is of no account.                                         *)
(***************************************************************************)
Ret(p, v) == [p |-> p, v |-> v]

Nil == [e |-> "Nil"]

panic(p) == [p EXCEPT !.st = "panic"]

\* One finished iteration of a loop of the parser.
logged(p, loop, before) ==
    [p EXCEPT !.log = Append(@, [loop |-> loop, before |-> before,
                                 after |-> p.pos, st |-> p.st])]

\* lexer.next_token() at index i of the stream.
token_at(toks, i) == IF i <= Len(toks) THEN toks[i] ELSE Eof

\* parser.rs 12-14 and 22-27: pull tokens until one is not a Comment.
RECURSIVE skip_comments(_, _)
skip_comments(toks, i) ==
    IF token_at(toks, i) = Comment THEN skip_comments(toks, i + 1) ELSE i

\* parser.rs 10-19
Parser_new(toks) ==
    LET i == skip_comments(toks, 1)
    IN  [toks |-> toks, pos |-> i, cur |-> token_at(toks, i),
         st |-> "ok", log |-> <<>>]

\* parser.rs 21-28
advance(p) ==
    IF p.st # "ok" THEN p
    ELSE LET i == skip_comments(p.toks,
                      IF p.pos <= Len(p.toks) THEN p.pos + 1 ELSE p.pos)
         IN  [p EXCEPT !.pos = i, !.cur = token_at(p.toks, i)]

\* parser.rs 30-36
expect(p, expected) ==
    IF p.st # "ok" THEN p
    ELSE IF p.cur = expected THEN advance(p) ELSE panic(p)

\* A variant of get_precedence with Star and Slash on the level of Plus.
get_precedence_flat(tok) ==
    CASE tok.k \in {"Star", "Slash"} -> 10
      [] tok.k \in {"Plus", "Minus"} -> 10
      [] tok.k \in {"EqEq", "Lt", "Gt"} -> 5
      [] tok.k = "And" -> 3
      [] tok.k = "Or" -> 1
      [] OTHER -> 0

\* parser.rs 233-242
get_precedence(tok) ==
    CASE tok.k \in {"Star", "Slash"} -> 20
      [] tok.k \in {"Plus", "Minus"} -> 10
      [] tok.k \in {"EqEq", "Lt", "Gt"} -> 5
      [] tok.k = "And" -> 3
      [] tok.k = "Or" -> 1
      [] OTHER -> 0

\* parser.rs 244-257
get_binary_op(tok) ==
    CASE tok.k = "Plus" -> "Add"
      [] tok.k = "Minus" -> "Sub"
      [] tok.k = "Star" -> "Mul"
      [] tok.k = "Slash" -> "Div"
      [] tok.k = "EqEq" -> "Eq"
      [] tok.k = "Lt" -> "Lt"
      [] tok.k = "Gt" -> "Gt"
      [] tok.k = "And" -> "And"
      [] tok.k = "Or" -> "Or"
      [] OTHER -> "None"

\* A variant of right_min that lets the right operand take operators of the
\* same level.
right_min_same_level(op_precedence) == op_precedence - 1

\* parser.rs 78: the minimum precedence handed to the parse of the right
\* operand.
right_min(op_precedence) == op_precedence

AssignTokens == {"PlusEq", "MinusEq", "StarEq", "SlashEq", "Eq"}

\* A variant of compound_op whose MinusEq arm was copied from the PlusEq arm.
compound_op_pasted(tok) ==
    CASE tok.k = "PlusEq" -> "Add"
      [] tok.k = "MinusEq" -> "Add"
      [] tok.k = "StarEq" -> "Mul"
      [] tok.k = "SlashEq" -> "Div"

\* parser.rs 132-136 and 289-293
compound_op(tok) ==
    CASE tok.k = "PlusEq" -> "Add"
      [] tok.k = "MinusEq" -> "Sub"
      [] tok.k = "StarEq" -> "Mul"
      [] tok.k = "SlashEq" -> "Div"

\* A variant of unexpected_token that recovers with an empty block.
unexpected_token_recover(p) == Ret(p, Block(<<>>, <<>>))

\* parser.rs 229
unexpected_token(p) == Ret(panic(p), Nil)

(***************************************************************************)
(* The parse functions call one another through Parse, which dispatches on *)
(* the name of the function.                                               *)
(***************************************************************************)
RECURSIVE Parse(_)
ParseUnary(p) == Parse(<<"parse_unary", p>>)
ParsePrimary(p) == Parse(<<"parse_primary", p>>)
ParseExpression(p, min_precedence) == Parse(<<"parse_expression", p, min_precedence>>)
ExpressionLoop(p, lhs, min_precedence) ==
    Parse(<<"expression_loop", p, lhs, min_precedence>>)
ParseBlock(p) == Parse(<<"parse_block", p>>)
BlockLoop(p, stmts, tail_expr) == Parse(<<"block_loop", p, stmts, tail_expr>>)
ArgsLoop(p, args) == Parse(<<"args_loop", p, args>>)
ParamsLoop(p, params) == Parse(<<"params_loop", p, params>>)
ParseLetStatement(p) == Parse(<<"parse_let_statement", p>>)
ParseFunctionStatement(p) == Parse(<<"parse_function_statement", p>>)
ParseWhileStatement(p) == Parse(<<"parse_while_statement", p>>)
ParseIfExpression(p) == Parse(<<"parse_if_expression", p>>)
ParseExpressionStatement(p) == Parse(<<"parse_expression_statement", p>>)
ParseStatement(p) == Parse(<<"parse_statement", p>>)
ProgramItem(p) == Parse(<<"program_item", p>>)

\* parser.rs 58-70
parse_unary(p) ==
    IF p.st # "ok" THEN Ret(p, Nil)
    ELSE IF p.cur = Tok("Bang") \/ p.cur = Tok("Minus")
    THEN LET op == IF p.cur = Tok("Bang") THEN "Not" ELSE "Neg"
             right == ParseUnary(advance(p))
         IN  Ret(right.p, Unary(op, right.v))
    ELSE ParsePrimary(p)

\* parser.rs 74-80: the while loop of parse_expression.
expression_loop(p, lhs, min_precedence) ==
    IF p.st = "ok" /\ get_precedence(p.cur) > min_precedence
    THEN LET op_precedence == get_precedence(p.cur)
             op == get_binary_op(p.cur)
             rhs == ParseExpression(advance(p), right_min(op_precedence))
         IN  ExpressionLoop(rhs.p, Binary(lhs, op, rhs.v), min_precedence)
    ELSE Ret(p, lhs)

\* parser.rs 72-82
parse_expression(p, min_precedence) ==
    LET lhs == ParseUnary(p)
    IN  ExpressionLoop(lhs.p, lhs.v, min_precedence)

\* parser.rs 97-102
parse_while_statement(p) ==
    LET condition == ParseExpression(advance(p), 0)
        body == ParseBlock(condition.p)
    IN  Ret(body.p, While(condition.v, body.v))

\* parser.rs 283-301 (and its copy at 132-155): the current token is one of
\* the assignment operators and the target is the variable `name`.
parse_assignment(p, name) ==
    IF p.cur = Tok("Eq")
    THEN LET right == ParseExpression(advance(p), 0)
         IN  Ret(expect(right.p, Tok("SemiColon")), Assign(name, right.v))
    ELSE LET op == compound_op(p.cur)
             right == ParseExpression(advance(p), 0)
         IN  Ret(expect(right.p, Tok("SemiColon")),
                 Assign(name, Binary(Variable(name), op, right.v)))

\* The state of the loop of parse_block after one iteration.
Item(p, stmts, tail_expr) == [p |-> p, statements |-> stmts, tail |-> tail_expr]

\* parser.rs 109-171: the body of the loop of parse_block.
block_item(p, stmts, tail_expr) ==
    CASE p.cur = Tok("Let") ->
           LET s == ParseLetStatement(p) IN Item(s.p, Append(stmts, s.v), tail_expr)
      [] p.cur = Tok("Fn") ->
           LET s == ParseFunctionStatement(p) IN Item(s.p, Append(stmts, s.v), tail_expr)
      [] p.cur = Tok("While") ->
           LET s == ParseWhileStatement(p) IN Item(s.p, Append(stmts, s.v), tail_expr)
      [] OTHER ->
           LET expr == ParseExpression(p, 0)
               q == expr.p
           IN  IF q.st # "ok" THEN Item(q, stmts, tail_expr)
               ELSE IF q.cur.k \in AssignTokens
               THEN IF expr.v.e # "Variable" THEN Item(panic(q), stmts, tail_expr)
                    ELSE LET a == parse_assignment(q, expr.v.name)
                         IN  Item(a.p, Append(stmts, a.v), tail_expr)
               ELSE IF q.cur = Tok("SemiColon")
               THEN Item(advance(q), Append(stmts, Expression(expr.v)), tail_expr)
               ELSE IF q.cur = Tok("RBrace")
               THEN Item(q, stmts, <<expr.v>>)
               ELSE Item(panic(q), stmts, tail_expr)

\* parser.rs 108-174: the loop of parse_block and what follows it.
block_loop(p, stmts, tail_expr) ==
    IF p.st # "ok" THEN Ret(p, Nil)
    ELSE IF p.cur # Tok("RBrace") /\ p.cur # Eof
    THEN LET it == block_item(p, stmts, tail_expr)
         IN  BlockLoop(logged(it.p, "parse_block", p.pos), it.statements, it.tail)
    ELSE Ret(expect(p, Tok("RBrace")), Block(stmts, tail_expr))

\* parser.rs 104-175
parse_block(p) == BlockLoop(expect(p, Tok("LBrace")), <<>>, <<>>)

\* parser.rs 206-213: the loop over the arguments of a call.
args_loop(p, args) ==
    LET arg == ParseExpression(p, 0)
        q == arg.p
    IN  IF q.st = "ok" /\ q.cur = Tok("Comma")
        THEN ArgsLoop(logged(advance(q), "arguments", p.pos), Append(args, arg.v))
        ELSE Ret(logged(q, "arguments", p.pos), Append(args, arg.v))

\* parser.rs 177-231
parse_primary(p) ==
    IF p.st # "ok" THEN Ret(p, Nil)
    ELSE LET tok == p.cur
         IN  CASE tok.k = "Int" -> Ret(advance(p), Literal(IntV(tok.i)))
               [] tok.k = "Float" -> Ret(advance(p), Literal(FloatV(tok.n, tok.d)))
               [] tok.k = "Str" -> Ret(advance(p), Literal(StrV(tok.s)))
               [] tok.k = "True" -> Ret(advance(p), Literal(BoolV(TRUE)))
               [] tok.k = "False" -> Ret(advance(p), Literal(BoolV(FALSE)))
               [] tok.k = "Identifier" ->
                    LET q == advance(p)
                    IN  IF q.cur = Tok("LParen")
                        THEN LET q2 == advance(q)
                                 args == IF q2.cur # Tok("RParen")
                                         THEN ArgsLoop(q2, <<>>)
                                         ELSE Ret(q2, <<>>)
                             IN  Ret(expect(args.p, Tok("RParen")), Call(tok.s, args.v))
                        ELSE Ret(q, Variable(tok.s))
               [] tok.k = "LParen" ->
                    LET expr == ParseExpression(advance(p), 0)
                    IN  Ret(expect(expr.p, Tok("RParen")), expr.v)
               [] tok.k = "LBrace" -> ParseBlock(p)
               [] tok.k = "If" -> ParseIfExpression(p)
               [] OTHER -> unexpected_token(p)

\* parser.rs 259-271
parse_let_statement(p) ==
    LET q == advance(p)
    IN  IF q.st # "ok" \/ q.cur.k # "Identifier" THEN Ret(panic(q), Nil)
        ELSE LET name == q.cur.s
                 value == ParseExpression(expect(advance(q), Tok("Eq")), 0)
             IN  Ret(expect(value.p, Tok("SemiColon")), Let(name, value.v))

\* parser.rs 304-316: what parse_expression_statement makes of an expression
\* that is not an assignment target.
statement_follower(p, expr) ==
    LET is_block_like == expr.e \in {"If", "Block"}
    IN  IF p.cur = Tok("SemiColon") THEN Ret(advance(p), Expression(expr))
        ELSE IF is_block_like THEN Ret(p, Expression(expr))
        ELSE IF p.cur = Eof THEN Ret(p, ImplicitReturn(expr))
        ELSE Ret(panic(p), Nil)

\* parser.rs 273-317
parse_expression_statement(p) ==
    LET expr == ParseExpression(p, 0)
        q == expr.p
    IN  IF q.st # "ok" THEN Ret(q, Nil)
        ELSE IF q.cur.k \in AssignTokens
        THEN IF expr.v.e # "Variable" THEN Ret(panic(q), Nil)
             ELSE parse_assignment(q, expr.v.name)
        ELSE statement_follower(q, expr.v)

\* parser.rs 330-343: the loop over the parameters of a function.
params_loop(p, params) ==
    IF p.cur.k # "Identifier" THEN Ret(logged(panic(p), "parameters", p.pos), params)
    ELSE LET q == advance(p)
         IN  IF q.cur = Tok("Comma")
             THEN ParamsLoop(logged(advance(q), "parameters", p.pos), Append(params, p.cur.s))
             ELSE Ret(logged(q, "parameters", p.pos), Append(params, p.cur.s))

\* parser.rs 319-349
parse_function_statement(p) ==
    LET q == advance(p)
    IN  IF q.st # "ok" \/ q.cur.k # "Identifier" THEN Ret(panic(q), Nil)
        ELSE LET name == q.cur.s
                 q2 == expect(advance(q), Tok("LParen"))
                 params == IF q2.st = "ok" /\ q2.cur # Tok("RParen")
                           THEN ParamsLoop(q2, <<>>)
                           ELSE Ret(q2, <<>>)
                 body == ParseBlock(expect(params.p, Tok("RParen")))
             IN  Ret(body.p, Fn(name, params.v, body.v))

\* parser.rs 351-366
parse_if_expression(p) ==
    LET condition == ParseExpression(advance(p), 0)
        then_branch == ParseBlock(condition.p)
        q == then_branch.p
    IN  IF q.st = "ok" /\ q.cur = Tok("Else")
        THEN LET q2 == advance(q)
                 else_branch == IF q2.cur = Tok("If")
                                THEN ParseIfExpression(q2)
                                ELSE ParseBlock(q2)
             IN  Ret(else_branch.p, If(condition.v, then_branch.v, <<else_branch.v>>))
        ELSE Ret(q, If(condition.v, then_branch.v, <<>>))

\* parser.rs 84-95
parse_statement(p) ==
    CASE p.cur = Tok("Let") -> ParseLetStatement(p)
      [] p.cur = Tok("Fn") -> ParseFunctionStatement(p)
      [] p.cur = Tok("While") -> ParseWhileStatement(p)
      [] OTHER -> ParseExpressionStatement(p)

\* parser.rs 41-52: the body of the loop of parse_program.
program_item(p) ==
    CASE p.cur = Tok("Let") \/ p.cur = Tok("Fn") -> ParseStatement(p)
      [] p.cur = Tok("While") -> ParseWhileStatement(p)
      [] OTHER -> ParseExpressionStatement(p)

Parse(c) ==
    CASE c[1] = "parse_unary" -> parse_unary(c[2])
      [] c[1] = "parse_primary" -> parse_primary(c[2])
      [] c[1] = "parse_expression" -> parse_expression(c[2], c[3])
      [] c[1] = "expression_loop" -> expression_loop(c[2], c[3], c[4])
      [] c[1] = "parse_block" -> parse_block(c[2])
      [] c[1] = "block_loop" -> block_loop(c[2], c[3], c[4])
      [] c[1] = "args_loop" -> args_loop(c[2], c[3])
      [] c[1] = "params_loop" -> params_loop(c[2], c[3])
      [] c[1] = "parse_let_statement" -> parse_let_statement(c[2])
      [] c[1] = "parse_function_statement" -> parse_function_statement(c[2])
      [] c[1] = "parse_while_statement" -> parse_while_statement(c[2])
      [] c[1] = "parse_if_expression" -> parse_if_expression(c[2])
      [] c[1] = "parse_expression_statement" -> parse_expression_statement(c[2])
      [] c[1] = "parse_statement" -> parse_statement(c[2])
      [] c[1] = "program_item" -> program_item(c[2])

(***************************************************************************)
(* Token streams of the parser runs.                                       *)
(***************************************************************************)
\* Longest stream drawn freely from the alphabet.
MaxStreamLen == 3

Alphabet ==
    { IntTok(1), Identifier("x"), Tok("True"), Tok("Plus"), Tok("Minus"), Tok("Bang"),
      Tok("LParen"), Tok("RParen"), Tok("LBrace"), Tok("RBrace"), Tok("SemiColon"),
      Tok("Comma"), Tok("Eq"), Tok("PlusEq"), Tok("Let"), Tok("Fn"), Tok("If"),
      Tok("Else"), Tok("While"), Comment }

ShortStreams == SeqsUpTo(Alphabet, MaxStreamLen)

\* Statements of the grammar, each a complete top-level statement.
WellFormedStatements ==
    { \* let x = 1;
      <<Tok("Let"), Identifier("x"), Tok("Eq"), IntTok(1), Tok("SemiColon")>>,
      \* let y = f(1, x);
      <<Tok("Let"), Identifier("y"), Tok("Eq"), Identifier("f"), Tok("LParen"),
        IntTok(1), Tok("Comma"), Identifier("x"), Tok("RParen"), Tok("SemiColon")>>,
      \* fn f() { }
      <<Tok("Fn"), Identifier("f"), Tok("LParen"), Tok("RParen"),
        Tok("LBrace"), Tok("RBrace")>>,
      \* fn f(x, y) { x }
      <<Tok("Fn"), Identifier("f"), Tok("LParen"), Identifier("x"), Tok("Comma"),
        Identifier("y"), Tok("RParen"), Tok("LBrace"), Identifier("x"), Tok("RBrace")>>,
      \* while x { x = 1; }
      <<Tok("While"), Identifier("x"), Tok("LBrace"), Identifier("x"), Tok("Eq"),
        IntTok(1), Tok("SemiColon"), Tok("RBrace")>>,
      \* x += 1;
      <<Identifier("x"), Tok("PlusEq"), IntTok(1), Tok("SemiColon")>>,
      \* if x { 1 } else { 2 }
      <<Tok("If"), Identifier("x"), Tok("LBrace"), IntTok(1), Tok("RBrace"),
        Tok("Else"), Tok("LBrace"), IntTok(2), Tok("RBrace")>>,
      \* if x { } else if y { x -= 1; }
      <<Tok("If"), Identifier("x"), Tok("LBrace"), Tok("RBrace"), Tok("Else"),
        Tok("If"), Identifier("y"), Tok("LBrace"), Identifier("x"), Tok("MinusEq"),
        IntTok(1), Tok("SemiColon"), Tok("RBrace")>>,
      \* { let x = 1; x; x }
      <<Tok("LBrace"), Tok("Let"), Identifier("x"), Tok("Eq"), IntTok(1),
        Tok("SemiColon"), Identifier("x"), Tok("SemiColon"), Identifier("x"),
        Tok("RBrace")>>,
      \* f();
      <<Identifier("f"), Tok("LParen"), Tok("RParen"), Tok("SemiColon")>>,
      \* // comment
      \* let x = // comment
      \*     "s";
      <<Comment, Tok("Let"), Identifier("x"), Tok("Eq"), Comment, StrTok("s"),
        Tok("SemiColon")>>,
      \* -x * (1 + 2);
      <<Tok("Minus"), Identifier("x"), Tok("Star"), Tok("LParen"), IntTok(1),
        Tok("Plus"), IntTok(2), Tok("RParen"), Tok("SemiColon")>> }

\* The expression a program may end with.
Trailing ==
    { <<>>,
      <<Identifier("x")>>,
      <<IntTok(1), Tok("Plus"), IntTok(2)>>,
      <<Identifier("f"), Tok("LParen"), Identifier("x"), Tok("RParen")>>,
      <<Tok("Bang"), Tok("True")>>,
      <<FloatTok(5, 2), Comment>> }

WellFormed ==
    { s1 \o s2 \o t : s1 \in WellFormedStatements \cup {<<>>},
                      s2 \in WellFormedStatements,
                      t \in Trailing }

\* toks without its i-th token.
Drop(toks, i) == SubSeq(toks, 1, i - 1) \o SubSeq(toks, i + 1, Len(toks))

\* Programs with one token missing.
Damaged ==
    UNION { { Drop(s \o t, i) : i \in 1..Len(s \o t) } :
            s \in WellFormedStatements, t \in {<<>>, <<Identifier("x")>>} }

BinaryOpTokens == {"Plus", "Minus", "Star", "Slash", "EqEq", "Lt", "Gt", "And", "Or"}

\* a op1 b op2 c
Chains ==
    { <<a, Tok(op1), b, Tok(op2), c>> :
        op1 \in BinaryOpTokens, op2 \in BinaryOpTokens,
        a \in {IntTok(1)}, b \in {IntTok(2), Identifier("b")}, c \in {IntTok(3)} }
    \cup { <<Tok("True"), Tok("Or"), Tok("False"), Tok("And"), Tok("False")>> }

\* One stream per expression form.
Forms ==
    { <<IntTok(1)>>,
      <<Identifier("x")>>,
      <<Tok("Minus"), IntTok(1)>>,
      <<IntTok(1), Tok("Plus"), IntTok(2)>>,
      <<Identifier("f"), Tok("LParen"), IntTok(1), Tok("RParen")>>,
      <<Tok("If"), Tok("True"), Tok("LBrace"), IntTok(1), Tok("RBrace"),
        Tok("Else"), Tok("LBrace"), IntTok(2), Tok("RBrace")>>,
      <<Tok("LBrace"), IntTok(1), Tok("RBrace")>> }

FormStreams ==
    { pre \o f \o post :
        pre \in {<<>>, <<Tok("Let"), Identifier("x"), Tok("Eq"), IntTok(10), Tok("SemiColon")>>},
        f \in Forms,
        post \in {<<>>, <<Tok("SemiColon")>>} }

\* Assignments: where the statement stands, its target, its operator, its
\* right-hand side (tokens and the expression they spell) and what ends it.
AssignCases ==
    [ in_block : BOOLEAN,
      target : { <<Identifier("x")>>, <<Tok("LParen"), Identifier("x"), Tok("RParen")>>,
                 <<IntTok(1)>>, <<Identifier("f"), Tok("LParen"), Tok("RParen")>>,
                 <<Identifier("x"), Tok("Plus"), Identifier("y")>> },
      op : {"Eq", "PlusEq", "MinusEq", "StarEq", "SlashEq"},
      rhs : { [toks |-> <<IntTok(5)>>, expr |-> Literal(IntV(5))],
              [toks |-> <<Identifier("x"), Tok("Plus"), IntTok(1)>>,
               expr |-> Binary(Variable("x"), "Add", Literal(IntV(1)))] },
      term : { <<Tok("SemiColon")>>, <<>>, <<Tok("Comma")>> } ]

AssignStream(c) ==
    LET st == c.target \o <<Tok(c.op)>> \o c.rhs.toks \o c.term
    IN  IF c.in_block THEN <<Tok("LBrace")>> \o st \o <<Tok("RBrace")>> ELSE st

AssignStreams == { AssignStream(c) : c \in AssignCases }

TokenStreams ==
    ShortStreams \cup WellFormed \cup Damaged \cup Chains \cup FormStreams
        \cup AssignStreams

(***************************************************************************)
(* Parser::new and parse_program (parser.rs 10-19, 38-56), one action per  *)
(* iteration of the loop of parse_program.                                 *)
(***************************************************************************)
InitParse ==
    /\ stream \in TokenStreams
    /\ parser = [pos |-> 0, current_token |-> Eof]
    /\ statements = <<>>
    /\ parse_status = "new"
    /\ parse_progress = <<>>
    /\ EvalIdle
    /\ LexIdle

\* parser.rs 10-19
new_parser ==
    /\ parse_status = "new"
    /\ LET p == Parser_new(stream)
       IN  parser' = [pos |-> p.pos, current_token |-> p.cur]
    /\ parse_status' = "parsing"
    /\ UNCHANGED <<stream, statements, parse_progress, evalVars, lexVars>>

\* parser.rs 40-53: one iteration of `while self.current_token != Token::Eof`.
parse_program_step ==
    /\ parse_status = "parsing"
    /\ parser.current_token # Eof
    /\ \E r \in { ProgramItem([toks |-> stream, pos |-> parser.pos,
                                cur |-> parser.current_token,
                                st |-> "ok", log |-> <<>>]) } :
       \E q \in { logged(r.p, "parse_program", parser.pos) } :
           /\ parse_progress' = q.log
           /\ IF q.st = "ok"
              THEN /\ statements' = Append(statements, r.v)
                   /\ parser' = [pos |-> q.pos, current_token |-> q.cur]
                   /\ UNCHANGED parse_status
              ELSE /\ parse_status' = "panic"
                   /\ UNCHANGED <<statements, parser>>
    /\ UNCHANGED <<stream, evalVars, lexVars>>

\* parser.rs 40 and 55: the loop is over and `statements` is returned.
parse_program_return ==
    /\ parse_status = "parsing"
    /\ parser.current_token = Eof
    /\ parse_status' = "done"
    /\ UNCHANGED <<stream, parser, statements, parse_progress, evalVars, lexVars>>

NextParse == new_parser \/ parse_program_step \/ parse_program_return

SpecParse == InitParse /\ [][NextParse]_vars

(***************************************************************************)
(* Properties of the parser, checked under SpecParse.                      *)
(***************************************************************************)
NonComment(toks) == SelectSeq(toks, LAMBDA t : t # Comment)

\* The statement parsed last is a bare expression, wrapped one way or the other.
EndsWithBareExpression ==
    /\ parse_status = "done"
    /\ statements # <<>>
    /\ statements[Len(statements)].s \in {"Expression", "ImplicitReturn"}

\* C6: a bare expression of any form that is followed directly by the end of
\* the file is wrapped as ImplicitReturn(expr); one followed by `;` is wrapped
\* as Expression(expr).
C6_ImplicitReturnAtEof ==
    EndsWithBareExpression =>
        LET toks == NonComment(stream)
            last == statements[Len(statements)]
        IN  IF toks[Len(toks)] = Tok("SemiColon")
            THEN last.s = "Expression"
            ELSE last.s = "ImplicitReturn"

\* The levels of the precedence table.
Level(k) ==
    CASE k \in {"Star", "Slash"} -> 20
      [] k \in {"Plus", "Minus"} -> 10
      [] k \in {"EqEq", "Lt", "Gt"} -> 5
      [] k = "And" -> 3
      [] k = "Or" -> 1

IsOperand(tok) == tok.k \in {"Int", "Identifier", "True", "False"}

Operand(tok) ==
    CASE tok.k = "Int" -> Literal(IntV(tok.i))
      [] tok.k = "Identifier" -> Variable(tok.s)
      [] tok.k = "True" -> Literal(BoolV(TRUE))
      [] tok.k = "False" -> Literal(BoolV(FALSE))

\* The stream is `a op1 b op2 c` and parse_program has returned.
ChainParsed ==
    /\ parse_status = "done"
    /\ Len(stream) = 5
    /\ IsOperand(stream[1]) /\ IsOperand(stream[3]) /\ IsOperand(stream[5])
    /\ stream[2].k \in BinaryOpTokens /\ stream[4].k \in BinaryOpTokens

LeftGrouped(toks) ==
    Binary(Binary(Operand(toks[1]), get_binary_op(toks[2]), Operand(toks[3])),
           get_binary_op(toks[4]), Operand(toks[5]))

RightGrouped(toks) ==
    Binary(Operand(toks[1]), get_binary_op(toks[2]),
           Binary(Operand(toks[3]), get_binary_op(toks[4]), Operand(toks[5])))

\* C7 as stated: for op1 and op2 of equal precedence, `a op1 b op2 c` parses
\* as Binary(a, op1, Binary(b, op2, c)).
C7_SameLevelRightGrouped ==
    ChainParsed /\ Level(stream[2].k) = Level(stream[4].k) =>
        statements = <<ImplicitReturn(RightGrouped(stream))>>

\* C7 amended: for op1 and op2 of equal precedence, `a op1 b op2 c` parses as
\* Binary(Binary(a, op1, b), op2, c).
C7_SameLevelLeftGrouped ==
    ChainParsed /\ Level(stream[2].k) = Level(stream[4].k) =>
        statements = <<ImplicitReturn(LeftGrouped(stream))>>

C7_Witness ==
    /\ ChainParsed
    /\ stream[2] = Tok("Lt") /\ stream[4] = Tok("EqEq")
    /\ statements = <<ImplicitReturn(LeftGrouped(stream))>>

\* C8: when the second operator has the strictly higher level,
\* `a lo b hi c` parses as Binary(a, lo, Binary(b, hi, c)); when the first has,
\* `a hi b lo c` parses as Binary(Binary(a, hi, b), lo, c).
C8_Precedence ==
    ChainParsed =>
        /\ Level(stream[2].k) < Level(stream[4].k) =>
               statements = <<ImplicitReturn(RightGrouped(stream))>>
        /\ Level(stream[2].k) > Level(stream[4].k) =>
               statements = <<ImplicitReturn(LeftGrouped(stream))>>

C8_Witness ==
    /\ ChainParsed
    /\ stream = <<Tok("True"), Tok("Or"), Tok("False"), Tok("And"), Tok("False")>>
    /\ statements = <<ImplicitReturn(Binary(Literal(BoolV(TRUE)), "Or",
                         Binary(Literal(BoolV(FALSE)), "And", Literal(BoolV(FALSE)))))>>

\* C10: every finished iteration of the loops of parse_program, parse_block,
\* the argument list and the parameter list has consumed a token or aborted;
\* when parse_program returns, the current token is Eof, every token is
\* consumed and the statement list is no longer than the stream; and a
\* well-formed program does not abort.
C10_ParseTerminates ==
    /\ \A i \in DOMAIN parse_progress :
           parse_progress[i].st = "ok" =>
               parse_progress[i].after > parse_progress[i].before
    /\ parser.pos <= Len(stream) + 1
    /\ parse_status = "done" =>
           /\ parser.current_token = Eof
           /\ parser.pos = Len(stream) + 1
           /\ Len(statements) <= Len(stream)
    /\ stream \in WellFormed => parse_status # "panic"

C10_Witness ==
    /\ parse_status = "done"
    /\ stream \in WellFormed
    /\ Len(statements) >= 2
    /\ {"parse_program", "parse_block", "parameters"} \subseteq
           { parse_progress[i].loop : i \in DOMAIN parse_progress }

(***************************************************************************)
(* Lexer (lexer.rs).  Lexer.input is the sequence of the characters not    *)
(* yet consumed, each character a string of length one.  A lexer function  *)
(* returns LexRet(tok, input, st): the token, the input left, and "ok" or  *)
(* "panic".                                                                *)
(***************************************************************************)
LexRet(tok, rest, st) == [tok |-> tok, input |-> rest, st |-> st]

NoToken == Tok("None")

Digits == <<"0", "1", "2", "3", "4", "5", "6", "7", "8", "9">>

is_whitespace(ch) == ch \in {" ", "\n", "\t", "\r"}

is_ascii_digit(ch) == \E i \in DOMAIN Digits : Digits[i] = ch

is_alphabetic(ch) ==
    ch \in {"a", "b", "c", "d", "e", "f", "g", "h", "i", "j", "k", "l", "m",
            "n", "o", "p", "q", "r", "s", "t", "u", "v", "w", "x", "y", "z"}

is_alphanumeric(ch) == is_alphabetic(ch) \/ is_ascii_digit(ch)

\* char::to_digit
digit_value(ch) == (CHOOSE i \in DOMAIN Digits : Digits[i] = ch) - 1

\* lexer.rs 45-53
RECURSIVE skip_whitespace(_)
skip_whitespace(chars) ==
    IF chars # <<>> /\ is_whitespace(Head(chars))
    THEN skip_whitespace(Tail(chars))
    ELSE chars

\* lexer.rs 90-101: the loop of read_number; number_str is kept as the digits
\* read so far (value), the count of digits after the dot (frac) and has_dot.
RECURSIVE number_loop(_, _, _, _)
number_loop(chars, value, frac, has_dot) ==
    IF chars # <<>> /\ is_ascii_digit(Head(chars))
    THEN number_loop(Tail(chars), 10 * value + digit_value(Head(chars)),
                     IF has_dot THEN frac + 1 ELSE frac, has_dot)
    ELSE IF chars # <<>> /\ Head(chars) = "." /\ ~has_dot
    THEN number_loop(Tail(chars), value, frac, TRUE)
    ELSE [input |-> chars, value |-> value, frac |-> frac, has_dot |-> has_dot]

RECURSIVE Pow10(_)
Pow10(k) == IF k = 0 THEN 1 ELSE 10 * Pow10(k - 1)

\* lexer.rs 87-110.  The strings of the model are too short for parse::<i64>
\* to overflow.
read_number(chars, first_digit) ==
    LET r == number_loop(chars, digit_value(first_digit), 0, FALSE)
    IN  IF r.has_dot
        THEN LET f == Normalize(r.value, Pow10(r.frac))
             IN  LexRet(FloatTok(f.n, f.d), r.input, "ok")
        ELSE LexRet(IntTok(r.value), r.input, "ok")

\* lexer.rs 112-130
RECURSIVE read_string(_, _)
read_string(chars, string_content) ==
    IF chars = <<>> THEN LexRet(NoToken, chars, "panic")
    ELSE IF Head(chars) = "\"" THEN LexRet(StrTok(string_content), Tail(chars), "ok")
    ELSE read_string(Tail(chars), string_content \o Head(chars))

\* lexer.rs 142-150
keyword(ident) ==
    CASE ident = "let" -> Tok("Let")
      [] ident = "fn" -> Tok("Fn")
      [] ident = "if" -> Tok("If")
      [] ident = "else" -> Tok("Else")
      [] ident = "true" -> Tok("True")
      [] ident = "false" -> Tok("False")
      [] OTHER -> Identifier(ident)

\* lexer.rs 132-151
RECURSIVE read_identifier(_, _)
read_identifier(chars, ident) ==
    IF chars # <<>> /\ (is_alphanumeric(Head(chars)) \/ Head(chars) = "_")
    THEN read_identifier(Tail(chars), ident \o Head(chars))
    ELSE LexRet(keyword(ident), chars, "ok")

\* lexer.rs 58-70: the characters that are a token by themselves.
Punctuation ==
    [ch \in {"+", "-", "*", "/", "(", ")", "{", "}", ";", ",", "!", "<", ">"} |->
        CASE ch = "+" -> "Plus" [] ch = "-" -> "Minus" [] ch = "*" -> "Star"
          [] ch = "/" -> "Slash" [] ch = "(" -> "LParen" [] ch = ")" -> "RParen"
          [] ch = "{" -> "LBrace" [] ch = "}" -> "RBrace" [] ch = ";" -> "SemiColon"
          [] ch = "," -> "Comma" [] ch = "!" -> "Bang" [] ch = "<" -> "Lt"
          [] ch = ">" -> "Gt"]

\* A variant of take that looks at the next character and leaves it in place.
take_peek(chars) == chars

\* lexer.rs 57: self.input.next() removes the character it returns.
take(chars) == Tail(chars)

\* lexer.rs 55-85
next_token(chars0) ==
    LET chars == skip_whitespace(chars0)
    IN  IF chars = <<>> THEN LexRet(Eof, chars, "ok")
        ELSE LET ch == Head(chars)
                 rest == take(chars)
             IN  CASE ch \in DOMAIN Punctuation -> LexRet(Tok(Punctuation[ch]), rest, "ok")
                   [] ch = "=" ->
                        IF rest # <<>> /\ Head(rest) = "="
                        THEN LexRet(Tok("EqEq"), Tail(rest), "ok")
                        ELSE LexRet(Tok("Eq"), rest, "ok")
                   [] ch = "\"" -> read_string(rest, "")
                   [] is_ascii_digit(ch) -> read_number(rest, ch)
                   [] is_alphabetic(ch) \/ ch = "_" -> read_identifier(rest, ch)
                   [] OTHER -> LexRet(NoToken, rest, "panic")

(***************************************************************************)
(* Source strings of the lexer runs.                                       *)
(***************************************************************************)
\* Longest source string.
MaxInputLen == 4

Chars == {"i", "f", "1", ".", " ", "=", "+", "\"", "@"}

\* Words, operators and comment lines.
Samples ==
    { <<"l", "e", "t">>, <<"f", "n">>, <<"i", "f">>, <<"e", "l", "s", "e">>,
      <<"t", "r", "u", "e">>, <<"f", "a", "l", "s", "e">>,
      <<"w", "h", "i", "l", "e">>, <<"l", "e", "t", "x">>, <<"i", "f", "_", "1">>,
      <<"m", "y", "_", "v", "a", "r">>, <<"_", "x", " ", "l", "e", "t">>,
      <<"w", "h", "i", "l", "e", " ", "x">>, <<"x", "1", "+", "l", "e", "t">>,
      <<"+", "=">>, <<"-", "=">>, <<"*", "=">>, <<"/", "=">>, <<"=", "=">>,
      <<"&", "&">>, <<"|", "|">>, <<"x", " ", "+", "=", " ", "1">>,
      <<"x", "-", "1">>, <<"x", "*", "y">>, <<"x", "/", "y">>, <<"=", "=", "=">>,
      <<"a", "&", "&", "b">>, <<"a", "|", "|", "b">>, <<"+", " ", "=">>,
      <<"/", "/">>, <<"/", "/", " ", "c", "\n", "1">>, <<"/", "/", "c", "\n", "/", "/", "d">>,
      <<"1", " ", "/", "/", "c">>, <<" ", "/", "/", "\n">> }

Sources == SeqsUpTo(Chars, MaxInputLen) \cup Samples

\* Calls of next_token in one run: enough to go past every source string.
MaxCalls == MaxInputLen + 3

(***************************************************************************)
(* Repeated calls of next_token on Lexer::new(source).                     *)
(***************************************************************************)
InitLex ==
    /\ source \in Sources
    /\ input = source
    /\ token = NoToken
    /\ lex_status = "ready"
    /\ calls = 0
    /\ EvalIdle
    /\ ParseIdle

\* One call of next_token; a panic ends the run.
next_token_call ==
    /\ lex_status = "ready"
    /\ calls < MaxCalls
    /\ \E r \in { next_token(input) } :
           IF r.st = "ok"
           THEN /\ token' = r.tok
                /\ input' = r.input
                /\ UNCHANGED lex_status
           ELSE /\ lex_status' = "panic"
                /\ UNCHANGED <<token, input>>
    /\ calls' = calls + 1
    /\ UNCHANGED <<source, evalVars, parseVars>>

NextLex == next_token_call

SpecLex == InitLex /\ [][NextLex]_vars

\* The caller keeps calling next_token.
SpecLexFair == SpecLex /\ WF_vars(next_token_call)

(***************************************************************************)
(* Properties of the lexer, checked under SpecLexFair.                     *)
(***************************************************************************)
\* C9 as stated: for every source string the calls of next_token reach Eof,
\* and return Eof from then on.
C9_EventuallyEofForever == <>[](token = Eof)

\* C9 amended: the calls of next_token either end in a lexical error or reach
\* Eof, and every call after the first Eof returns Eof.
C9_EofOrLexError ==
    /\ <>[](lex_status = "panic" \/ token = Eof)
    /\ [][token = Eof => token' = Eof]_vars

C9_Witness ==
    /\ source = <<"i", "f", " ", "1">>
    /\ token = Eof
    /\ calls = MaxCalls

\* One call of next_token is made in this step.
Called == lex_status = "ready" /\ calls' = calls + 1

\* The input at the cursor, past the whitespace next_token skips.
AtCursor == skip_whitespace(input)

StartsWith(chars, prefix) ==
    Len(chars) >= Len(prefix) /\ SubSeq(chars, 1, Len(prefix)) = prefix

\* The suffixes of chars.
Suffixes(chars) == { SubSeq(chars, i, Len(chars)) : i \in 1..(Len(chars) + 1) }

\* Where the line that starts chars ends: at its newline, or at the end of
\* the input when there is none.
RECURSIVE LineEnd(_)
LineEnd(chars) ==
    IF chars = <<>> \/ Head(chars) = "\n" THEN chars ELSE LineEnd(Tail(chars))

\* C11 (lexer part): when the input at the cursor starts with `//`, next_token
\* returns Comment and leaves the input at the end of that line (before or
\* after its newline).
C11_LineComment ==
    [][(Called /\ StartsWith(AtCursor, <<"/", "/">>)) =>
          /\ lex_status' = "ready"
          /\ token' = Comment
          /\ input' \in {LineEnd(AtCursor)} \cup
                         {Tail(l) : l \in {LineEnd(AtCursor)} \ {<<>>}}]_vars

\* The operators of C12: the characters of each and its token.
Operators ==
    { [chars |-> <<"=", "=">>, tok |-> "EqEq"], [chars |-> <<"=">>, tok |-> "Eq"],
      [chars |-> <<"+", "=">>, tok |-> "PlusEq"], [chars |-> <<"+">>, tok |-> "Plus"],
      [chars |-> <<"-", "=">>, tok |-> "MinusEq"], [chars |-> <<"-">>, tok |-> "Minus"],
      [chars |-> <<"*", "=">>, tok |-> "StarEq"], [chars |-> <<"*">>, tok |-> "Star"],
      [chars |-> <<"/", "=">>, tok |-> "SlashEq"], [chars |-> <<"/">>, tok |-> "Slash"],
      [chars |-> <<"&", "&">>, tok |-> "And"], [chars |-> <<"|", "|">>, tok |-> "Or"] }

\* The longest operator the input at the cursor starts with, if any; `//`
\* starts a comment.
OperatorsAt(chars) ==
    IF StartsWith(chars, <<"/", "/">>) THEN {}
    ELSE LET ops == { o \in Operators : StartsWith(chars, o.chars) }
         IN  { o \in ops : \A o2 \in ops : Len(o2.chars) <= Len(o.chars) }

\* C12: an operator at the cursor is returned as one token, the two-character
\* operator when its second character follows and the one-character operator
\* otherwise, and exactly its characters are consumed.
C12_Operators ==
    [][\A o \in OperatorsAt(AtCursor) :
          Called =>
              /\ lex_status' = "ready"
              /\ token' = Tok(o.tok)
              /\ input' = SubSeq(AtCursor, Len(o.chars) + 1, Len(AtCursor))]_vars

IsRunStart(ch) == is_alphabetic(ch) \/ ch = "_"

IsRunChar(ch) == is_alphanumeric(ch) \/ ch = "_"

\* What follows the identifier run that starts chars.
RECURSIVE AfterRun(_)
AfterRun(chars) ==
    IF chars # <<>> /\ IsRunChar(Head(chars)) THEN AfterRun(Tail(chars)) ELSE chars

Keywords ==
    { [word |-> <<"l", "e", "t">>, tok |-> "Let"],
      [word |-> <<"f", "n">>, tok |-> "Fn"],
      [word |-> <<"i", "f">>, tok |-> "If"],
      [word |-> <<"e", "l", "s", "e">>, tok |-> "Else"],
      [word |-> <<"t", "r", "u", "e">>, tok |-> "True"],
      [word |-> <<"f", "a", "l", "s", "e">>, tok |-> "False"],
      [word |-> <<"w", "h", "i", "l", "e">>, tok |-> "While"] }

RECURSIVE Text(_)
Text(chars) == IF chars = <<>> THEN "" ELSE Head(chars) \o Text(Tail(chars))

\* C13: the identifier run at the cursor is taken whole; it lexes to its
\* keyword token when the whole run is a reserved word and to Identifier(run)
\* otherwise.
C13_Keywords ==
    [][(Called /\ AtCursor # <<>> /\ IsRunStart(Head(AtCursor))) =>
          LET rest == AfterRun(AtCursor)
              run == SubSeq(AtCursor, 1, Len(AtCursor) - Len(rest))
              kw == { k \in Keywords : k.word = run }
          IN  /\ lex_status' = "ready"
              /\ input' = rest
              /\ token' = IF kw = {} THEN Identifier(Text(run))
                          ELSE Tok((CHOOSE k \in kw : TRUE).tok)]_vars

\* The binary operator of a compound assignment.
CompoundOp(op) ==
    CASE op = "PlusEq" -> "Add" [] op = "MinusEq" -> "Sub"
      [] op = "StarEq" -> "Mul" [] op = "SlashEq" -> "Div"

\* The statement an assignment to x desugars to.
Desugared(c) ==
    IF c.op = "Eq" THEN Assign("x", c.rhs.expr)
    ELSE Assign("x", Binary(Variable("x"), CompoundOp(c.op), c.rhs.expr))

IsBareVariable(target) ==
    target \in { <<Identifier("x")>>, <<Tok("LParen"), Identifier("x"), Tok("RParen")>> }

\* C14: at top level and inside a block, `name = rhs;` parses to
\* Assign(name, rhs) and `name op= rhs;` to
\* Assign(name, Binary(Variable(name), op, rhs)); a target that is not a bare
\* variable, or a missing `;`, aborts the parse.
C14_AssignmentDesugaring ==
    (stream \in AssignStreams /\ parse_status \in {"done", "panic"}) =>
    \A c \in AssignCases :
        stream = AssignStream(c) =>
            IF IsBareVariable(c.target) /\ c.term = <<Tok("SemiColon")>>
            THEN /\ parse_status = "done"
                 /\ statements = IF c.in_block
                                  THEN <<Expression(Block(<<Desugared(c)>>, <<>>))>>
                                  ELSE <<Desugared(c)>>
            ELSE parse_status = "panic"

C14_Witness ==
    /\ parse_status = "done"
    /\ stream = <<Tok("LBrace"), Identifier("x"), Tok("MinusEq"), Identifier("x"),
                  Tok("Plus"), IntTok(1), Tok("SemiColon"), Tok("RBrace")>>
    /\ statements =
           <<Expression(Block(<<Assign("x", Binary(Variable("x"), "Sub",
                 Binary(Variable("x"), "Add", Literal(IntV(1)))))>>, <<>>))>>

(***************************************************************************)
(* Further properties of the evaluator, checked under SpecEval.            *)
(***************************************************************************)
\* The Fibonacci numbers.
Fibonacci[k \in 0..(MaxFibArg + 1)] ==
    IF k < 2 THEN k ELSE Fibonacci[k - 1] + Fibonacci[k - 2]

\* C15: with fib defined at top level, fib(k) ends and returns the k-th
\* Fibonacci number for every k of the range, and every call of fib runs with
\* n bound to its own argument and leaves the environment of its caller as it
\* was.
C15_Recursion ==
    /\ \A k \in 0..MaxFibArg :
           (program = FibProgram(k) /\ pc = 3) =>
               /\ run_status \in {"running", "done"}
               /\ last_value = IntV(Fibonacci[k])
               /\ \A j \in DOMAIN events :
                      (events[j].k = "call") =>
                          /\ events[j].func_env["n"] = events[j].arg_values[1]
                          /\ events[j].env_ret = events[j].env_args
    /\ (program \in FibPrograms /\ pc = 2) => (run_status = "running")

\* fib(3) = fib(2) + fib(1) has run: five calls of fib, nested three deep.
C15_Witness ==
    /\ program = FibProgram(3)
    /\ run_status = "done"
    /\ last_value = IntV(2)
    /\ Cardinality({ j \in DOMAIN events : events[j].k = "call" }) = 5

\* C16: the counted loop started with x = k evaluates its condition k + 1
\* times and its body k times, leaves x = 0 and r = k + ... + 1 in the
\* enclosing environment, produces Unit, and the program then gives r; a
\* condition whose value is not a Bool stops the run with a panic, at once
\* or at the later evaluation that gives it.
C16_WhileLoop ==
    /\ \A k \in 0..MaxLoop :
           (program = WhileProgram(k) /\ pc >= 5) =>
               /\ run_status \in {"running", "done"}
               /\ (pc = 6) =>
                      /\ last_value = Unit
                      /\ env["c"] = IntV(k + 1)
                      /\ env["b"] = IntV(k)
                      /\ env["x"] = IntV(0)
                      /\ env["r"] = IntV((k * (k + 1)) \div 2)
               /\ (pc = 7) => (last_value = IntV((k * (k + 1)) \div 2))
    /\ \A cond \in NotBoolConditions :
           (program = WhileNotBool(cond)) =>
               /\ pc <= 2
               /\ (pc = 2) => (run_status \in {"running", "panic"} /\ env["b"] = IntV(0))
    /\ (program = WhileTurnsInt) =>
           /\ pc <= 3
           /\ (pc = 3) => (run_status \in {"running", "panic"})
           /\ (run_status = "panic") =>
                  { events[j].name : j \in { i \in DOMAIN events : events[i].k = "assign" } }
                      = {"b", "x"}

\* let x = 5; ... while x > 0 { r += x; x -= 1; } r has given 15.
C16_Witness ==
    /\ program = WhileProgram(5)
    /\ run_status = "done"
    /\ last_value = IntV(15)
    /\ env["c"] = IntV(6)
    /\ env["b"] = IntV(5)

\* The variant of the value of `l op r` by the variants of l and r; "none"
\* where the operator is not defined.
ResultType(lt, op, rt) ==
    CASE lt = "Int" /\ rt = "Int" /\ op \in {"Add", "Sub", "Mul", "Div"} -> "Int"
      [] {lt, rt} = {"Int", "Float"} /\ op \in {"Add", "Sub", "Mul", "Div"} -> "Float"
      [] lt = "Float" /\ rt = "Float" /\ op \in {"Add", "Sub", "Mul", "Div"} -> "Float"
      [] lt = rt /\ lt \in {"Int", "Float"} /\ op \in {"Lt", "Gt", "Eq"} -> "Bool"
      [] lt = "Str" /\ rt = "Str" /\ op = "Add" -> "Str"
      [] lt = "Bool" /\ rt = "Bool" /\ op \in {"And", "Or"} -> "Bool"
      [] OTHER -> "none"

\* The program `a op b` has been run: it gave a value or it aborted.
BinaryRun(a, op, b) ==
    /\ program = BinaryProgram(a.ex, op, b.ex)
    /\ (pc = 2 \/ run_status # "running")

\* C18: `a op b` on operands of every variant gives a value of the variant
\* the table names where the operator is defined on the two variants (an Int
\* divided by the Int 0 aborts, nothing else does) and aborts where it is
\* not; an Int and a Float give the Float result of the promoted operands,
\* two Strs their concatenation.
C18_BinaryTyping ==
    /\ (program \in BinaryPrograms) =>
       \A a \in Operands, b \in Operands, op \in BinaryOps :
           BinaryRun(a, op, b) =>
               IF ResultType(a.t, op, b.t) = "none"
                  \/ (a.t = "Int" /\ b.ex = IntLit(0) /\ op = "Div")
               THEN run_status = "panic" /\ pc = 1
               ELSE pc = 2 /\ last_value.t = ResultType(a.t, op, b.t)
    /\ (program = BinaryProgram(IntLit(2), "Add", Literal(FloatV(1, 2))) /\ pc = 2)
           => (last_value = FloatV(5, 2))
    /\ (program = BinaryProgram(Literal(FloatV(1, 2)), "Sub", IntLit(2)) /\ pc = 2)
           => (last_value = FloatV(-3, 2))
    /\ (program = BinaryProgram(IntLit(2), "Mul", Literal(FloatV(1, 2))) /\ pc = 2)
           => (last_value = FloatV(1, 1))
    /\ (program = BinaryProgram(IntLit(2), "Div", Literal(FloatV(1, 2))) /\ pc = 2)
           => (last_value = FloatV(4, 1))
    /\ (program = BinaryProgram(Literal(StrV("a")), "Add", Literal(StrV("b"))) /\ pc = 2)
           => (last_value = StrV("ab"))
    /\ (program = BinaryProgram(Literal(FloatV(1, 2)), "Lt", Literal(FloatV(2, 1))) /\ pc = 2)
           => (last_value = BoolV(TRUE))
    /\ (program = BinaryProgram(True, "And", Literal(BoolV(FALSE))) /\ pc = 2)
           => (last_value = BoolV(FALSE))

\* 2 < 0.5, an Int compared with a Float, has aborted.
C18_Witness ==
    /\ program = BinaryProgram(IntLit(2), "Lt", Literal(FloatV(1, 2)))
    /\ run_status = "panic"
    /\ pc = 1

\* The call statement of CallCase(name, n) has been run.
CallRun(name, n) ==
    /\ program = CallCase(name, n)
    /\ (pc = 8 \/ (pc = 7 /\ run_status # "running"))

\* The body of a marking function has run (to its assignment at least).
BodyRan == \E j \in DOMAIN events : events[j] = AssignEvent("x", IntV(9))

\* C21: a call of a name that is unbound, or bound to an Int, a Str or a
\* Bool, and a call of a function of k parameters with another number of
\* arguments, aborts and the body of no function has run; a call of a function
\* with as many arguments as parameters runs the body and returns its value,
\* and a call of println returns Unit whatever the number of arguments.
C21_CallErrors ==
    (program \in CallCases) =>
    \A name \in Callees, n \in 0..MaxArgs :
        CallRun(name, n) =>
            CASE name \in {"g", "x", "s", "b"} ->
                    run_status = "panic" /\ ~BodyRan
              [] name = "println" ->
                    pc = 8 /\ last_value = Unit /\ ~BodyRan
              [] OTHER ->
                    IF n = Arity(name)
                    THEN pc = 8 /\ last_value = IntV(7) /\ BodyRan
                    ELSE run_status = "panic" /\ ~BodyRan

\* f1(1, 2), two arguments for one parameter, has aborted.
C21_Witness ==
    /\ program = CallCase("f1", 2)
    /\ run_status = "panic"
    /\ pc = 7

\* The assignment of AssignCase(bound, rhs) has been run.
AssignRun(bound, rhs) ==
    /\ program = AssignCase(bound, rhs)
    /\ (pc = 4 \/ (pc = 3 /\ run_status # "running"))

\* C22: `z = rhs` with z unbound aborts and nothing of rhs has happened (no
\* assignment of rhs is in the history); with z bound it evaluates rhs, binds z
\* to the value, gives Unit and leaves the set of bound names as it was (it
\* aborts when rhs does).
C22_Assign ==
    (program \in AssignPrograms) =>
    \A bound \in BOOLEAN, rhs \in RightSides :
        AssignRun(bound, rhs) =>
            IF ~bound THEN run_status = "panic" /\ events = <<>>
            ELSE IF rhs = Y THEN run_status = "panic"
            ELSE /\ pc = 4
                 /\ last_value = Unit
                 /\ env["z"] = IntV(5)
                 /\ env["x"] = IntV(IF rhs = IntLit(5) THEN 0 ELSE 9)
                 /\ DOMAIN env = {"println", "x", "z"}

(***************************************************************************)
(* main.rs as a whole on a token stream: the stream is parsed and the      *)
(* statements parse_program returns are evaluated in order.                *)
(***************************************************************************)
Id(name) == Identifier(name)

\* let x = 1 ; let v = <expression> ; v
LetV(toks) ==
    <<Tok("Let"), Id("x"), Tok("Eq"), IntTok(1), Tok("SemiColon"),
      Tok("Let"), Id("v"), Tok("Eq")>> \o toks \o <<Tok("SemiColon"), Id("v")>>

\* What a block starts with.
BlockPrefixes == {"none", "let_x", "assign_x", "let_y"}

PrefixToks(p) ==
    CASE p = "none" -> <<>>
      [] p = "let_x" -> <<Tok("Let"), Id("x"), Tok("Eq"), IntTok(10), Tok("SemiColon")>>
      [] p = "assign_x" -> <<Id("x"), Tok("Eq"), IntTok(7), Tok("SemiColon")>>
      [] p = "let_y" -> <<Tok("Let"), Id("y"), Tok("Eq"), IntTok(5), Tok("SemiColon")>>

\* The last expression of a block.
BlockTails == {"none", "x", "x_plus_1", "lit", "block", "if_then", "if_else", "if_unit", "y"}

TailToks(t) ==
    CASE t = "none" -> <<>>
      [] t = "x" -> <<Id("x")>>
      [] t = "x_plus_1" -> <<Id("x"), Tok("Plus"), IntTok(1)>>
      [] t = "lit" -> <<IntTok(3)>>
      [] t = "block" -> <<Tok("LBrace"), Id("x"), Tok("RBrace")>>
      [] t = "if_then" ->
            <<Tok("If"), Tok("True"), Tok("LBrace"), Id("x"), Tok("RBrace"),
              Tok("Else"), Tok("LBrace"), IntTok(0), Tok("RBrace")>>
      [] t = "if_else" ->
            <<Tok("If"), Tok("False"), Tok("LBrace"), IntTok(0), Tok("RBrace"),
              Tok("Else"), Tok("LBrace"), Id("x"), Tok("Plus"), IntTok(1), Tok("RBrace")>>
      [] t = "if_unit" -> <<Tok("If"), Tok("False"), Tok("LBrace"), IntTok(3), Tok("RBrace")>>
      [] t = "y" -> <<Id("y")>>

\* { prefix tail } or { prefix tail ; }
BlockCases ==
    { c \in [pre : BlockPrefixes, tail : BlockTails, semi : BOOLEAN] :
        (c.tail = "none") => ~c.semi }

BlockToks(c) ==
    <<Tok("LBrace")>> \o PrefixToks(c.pre) \o TailToks(c.tail)
    \o (IF c.semi THEN <<Tok("SemiColon")>> ELSE <<>>) \o <<Tok("RBrace")>>

BlockStream(c) == LetV(BlockToks(c))

\* let x = if true { 10 } else { 20 } ; x + 5      (and the same with false)
IfValueStream(b) ==
    <<Tok("Let"), Id("x"), Tok("Eq"),
      Tok("If"), Tok(IF b THEN "True" ELSE "False"), Tok("LBrace"), IntTok(10), Tok("RBrace"),
      Tok("Else"), Tok("LBrace"), IntTok(20), Tok("RBrace"), Tok("SemiColon"),
      Id("x"), Tok("Plus"), IntTok(5)>>

BlockValueStreams ==
    { BlockStream(c) : c \in BlockCases } \cup { IfValueStream(b) : b \in BOOLEAN }

\* The right operand of a logical operator.
RightOperands == {"assign_true", "assign_false", "undefined", "mismatch"}

RightToks(r) ==
    CASE r \in {"assign_true", "assign_false"} ->
            <<Tok("LBrace"), Id("x"), Tok("Eq"), Id("x"), Tok("Star"), IntTok(10), Tok("SemiColon"),
              Tok(IF r = "assign_true" THEN "True" ELSE "False"), Tok("RBrace")>>
      [] r = "undefined" -> <<Id("z")>>
      [] r = "mismatch" -> <<IntTok(1), Tok("Plus"), Tok("True")>>

LogicalCases == [a : BOOLEAN, op : {"And", "Or"}, r : RightOperands]

\* let x = 1 ; let v = { x = 2 ; a } op right ; x
LogicalStream(c) ==
    <<Tok("Let"), Id("x"), Tok("Eq"), IntTok(1), Tok("SemiColon"),
      Tok("Let"), Id("v"), Tok("Eq"),
      Tok("LBrace"), Id("x"), Tok("Eq"), IntTok(2), Tok("SemiColon"),
      Tok(IF c.a THEN "True" ELSE "False"), Tok("RBrace"), Tok(c.op)>>
    \o RightToks(c.r) \o <<Tok("SemiColon"), Id("x")>>

LogicalStreams == { LogicalStream(c) : c \in LogicalCases }

\* Conditions of an `if`: what the condition block ends with.
Conditions == {"true", "false", "int", "str", "unit"}

\* { name = name + 1 ; last }
Counting(name, last) ==
    <<Tok("LBrace"), Id(name), Tok("Eq"), Id(name), Tok("Plus"), IntTok(1), Tok("SemiColon")>>
    \o last \o <<Tok("RBrace")>>

CondToks(c) ==
    CASE c = "true" -> <<Tok("True")>>
      [] c = "false" -> <<Tok("False")>>
      [] c = "int" -> <<IntTok(1)>>
      [] c = "str" -> <<StrTok("s")>>
      [] c = "unit" -> <<>>

LetZero(name) == <<Tok("Let"), Id(name), Tok("Eq"), IntTok(0), Tok("SemiColon")>>

IfCases ==
    { c \in [form : {"else", "no_else", "chain"}, c1 : Conditions, c2 : Conditions] :
        (c.form # "chain") => (c.c2 = "true") }

\* if { c += 1; c1 } { t += 1; 10 }
\*   [ else { e += 1; 20 } | else if { d += 1; c2 } { u += 1; 20 } else { e += 1; 30 } ]
IfToks(c) ==
    <<Tok("If")>> \o Counting("c", CondToks(c.c1)) \o Counting("t", <<IntTok(10)>>)
    \o (CASE c.form = "no_else" -> <<>>
           [] c.form = "else" -> <<Tok("Else")>> \o Counting("e", <<IntTok(20)>>)
           [] c.form = "chain" ->
                 <<Tok("Else"), Tok("If")>> \o Counting("d", CondToks(c.c2))
                 \o Counting("u", <<IntTok(20)>>)
                 \o <<Tok("Else")>> \o Counting("e", <<IntTok(30)>>))

\* let c = 0; let t = 0; let e = 0; let d = 0; let u = 0; let v = if ... ; v
IfStream(c) ==
    LetZero("c") \o LetZero("t") \o LetZero("e") \o LetZero("d") \o LetZero("u")
    \o <<Tok("Let"), Id("v"), Tok("Eq")>> \o IfToks(c) \o <<Tok("SemiColon"), Id("v")>>

IfStreams == { IfStream(c) : c \in IfCases }

\* name = name + i ;
AddTo(name, i) == <<Id(name), Tok("Eq"), Id(name), Tok("Plus"), IntTok(i), Tok("SemiColon")>>

\* A block that ends with `if true { x = x + 1; }`, followed by `;` or not,
\* after the statement `x = x + 10;` or without it; the block stands alone or
\* is the body of a loop of two iterations.
TailCases == [wrap : {"block", "while"}, pre : BOOLEAN, semi : BOOLEAN]

\* { [n = n + 1;] [x = x + 10;] if true { x = x + 1; } [;] }
TailBlock(c) ==
    <<Tok("LBrace")>>
    \o (IF c.wrap = "while" THEN AddTo("n", 1) ELSE <<>>)
    \o (IF c.pre THEN AddTo("x", 10) ELSE <<>>)
    \o <<Tok("If"), Tok("True"), Tok("LBrace")>> \o AddTo("x", 1) \o <<Tok("RBrace")>>
    \o (IF c.semi THEN <<Tok("SemiColon")>> ELSE <<>>)
    \o <<Tok("RBrace")>>

\* let x = 0; let n = 0; [while n < 2] { ... } x
TailStream(c) ==
    LetZero("x") \o LetZero("n")
    \o (IF c.wrap = "while" THEN <<Tok("While"), Id("n"), Tok("Lt"), IntTok(2)>> ELSE <<>>)
    \o TailBlock(c) \o <<Id("x")>>

\* let x = 1; let v = { { x = 4; x } }; x + v
NestedTailStream ==
    <<Tok("Let"), Id("x"), Tok("Eq"), IntTok(1), Tok("SemiColon"),
      Tok("Let"), Id("v"), Tok("Eq"), Tok("LBrace"), Tok("LBrace"),
      Id("x"), Tok("Eq"), IntTok(4), Tok("SemiColon"), Id("x"),
      Tok("RBrace"), Tok("RBrace"), Tok("SemiColon"),
      Id("x"), Tok("Plus"), Id("v")>>

TailStreams == { TailStream(c) : c \in TailCases } \cup { NestedTailStream }

\* fn name() { i }
FnToks(name, i) ==
    <<Tok("Fn"), Id(name), Tok("LParen"), Tok("RParen"), Tok("LBrace"), IntTok(i), Tok("RBrace")>>

\* let name = i ;
LetToks(name, i) == <<Tok("Let"), Id(name), Tok("Eq"), IntTok(i), Tok("SemiColon")>>

\* name = i ;
SetToks(name, i) == <<Id(name), Tok("Eq"), IntTok(i), Tok("SemiColon")>>

CallToks(name) == <<Id(name), Tok("LParen"), Tok("RParen")>>

Braces(toks) == <<Tok("LBrace")>> \o toks \o <<Tok("RBrace")>>

\* Programs `before { items } last` with the result the rule of the locals
\* gives: the value printed, or an abort.
LocalCases ==
    { \* fn f() { 1 } { fn f() { 2 } } f()
      [toks |-> FnToks("f", 1) \o Braces(FnToks("f", 2)) \o CallToks("f"),
       abort |-> FALSE, val |-> 2],
      \* { fn g() { 1 } } g()
      [toks |-> Braces(FnToks("g", 1)) \o CallToks("g"), abort |-> TRUE, val |-> 0],
      \* fn f() { 1 } { let f = 3; } f()
      [toks |-> FnToks("f", 1) \o Braces(LetToks("f", 3)) \o CallToks("f"),
       abort |-> FALSE, val |-> 1],
      \* fn f() { 1 } { fn f() { 2 } let f = 3; } f()
      [toks |-> FnToks("f", 1) \o Braces(FnToks("f", 2) \o LetToks("f", 3)) \o CallToks("f"),
       abort |-> FALSE, val |-> 1],
      \* let x = 1; { x = 5; } x
      [toks |-> LetToks("x", 1) \o Braces(SetToks("x", 5)) \o <<Id("x")>>,
       abort |-> FALSE, val |-> 5],
      \* let x = 1; { let x = 2; x = 5; } x
      [toks |-> LetToks("x", 1) \o Braces(LetToks("x", 2) \o SetToks("x", 5)) \o <<Id("x")>>,
       abort |-> FALSE, val |-> 1],
      \* let x = 1; { x = 5; let x = 2; } x
      [toks |-> LetToks("x", 1) \o Braces(SetToks("x", 5) \o LetToks("x", 2)) \o <<Id("x")>>,
       abort |-> FALSE, val |-> 1],
      \* let x = 1; { { let x = 2; }; x = 5; } x
      [toks |-> LetToks("x", 1)
                \o Braces(Braces(LetToks("x", 2)) \o <<Tok("SemiColon")>> \o SetToks("x", 5))
                \o <<Id("x")>>,
       abort |-> FALSE, val |-> 5],
      \* let x = 1; { let y = 2; x = 7; } x
      [toks |-> LetToks("x", 1) \o Braces(LetToks("y", 2) \o SetToks("x", 7)) \o <<Id("x")>>,
       abort |-> FALSE, val |-> 7],
      \* let x = 1; { let y = 2; } y
      [toks |-> LetToks("x", 1) \o Braces(LetToks("y", 2)) \o <<Id("y")>>,
       abort |-> TRUE, val |-> 0] }

LocalStreams == { c.toks : c \in LocalCases }

MainStreams ==
    BlockValueStreams \cup LogicalStreams \cup IfStreams \cup TailStreams \cup LocalStreams

InitMain ==
    /\ stream \in MainStreams
    /\ parser = [pos |-> 0, current_token |-> Eof]
    /\ statements = <<>>
    /\ parse_status = "new"
    /\ parse_progress = <<>>
    /\ EvalIdle
    /\ LexIdle

\* main.rs 20-22: the program parse_program returned, a new environment, Unit.
interpret ==
    /\ parse_status = "done"
    /\ run_status = "idle"
    /\ program' = statements
    /\ env' = Environment_new
    /\ last_value' = Unit
    /\ run_status' = "running"
    /\ UNCHANGED <<pc, events, parseVars, lexVars>>

NextMain == NextParse \/ interpret \/ NextEval

SpecMain == InitMain /\ [][NextMain]_vars

(***************************************************************************)
(* Properties of whole runs, checked under SpecMain.                       *)
(***************************************************************************)
\* The run is over: the value was printed or the process aborted.
Ended == run_status \in {"done", "panic"}

\* The value of x inside the block once the prefix has run (1 outside).
PrefixX(p) == CASE p = "let_x" -> 10 [] p = "assign_x" -> 7 [] OTHER -> 1

\* The value of the last expression where x has the value x.
TailVal(t, x) ==
    CASE t \in {"x", "block", "if_then"} -> IntV(x)
      [] t \in {"x_plus_1", "if_else"} -> IntV(x + 1)
      [] t = "lit" -> IntV(3)
      [] t = "y" -> IntV(5)
      [] OTHER -> Unit

\* y is known only inside a block that declares it.
BlockAborts(c) == c.tail = "y" /\ c.pre # "let_y"

BlockVal(c) == IF c.semi THEN Unit ELSE TailVal(c.tail, PrefixX(c.pre))

\* C17: `let x = 1; let v = { ... }; v` gives the value of the block's last
\* expression, computed with the bindings the block made (its own x, its y),
\* when that expression is followed by `}`, and Unit when the block is
\* empty or its last item ends with `;`; the bindings of the block are gone
\* afterwards; `let x = if b { 10 } else { 20 }; x + 5` gives 15 or 25.
C17_BlockValue ==
    /\ (stream \in BlockValueStreams) => (parse_status # "panic" /\ run_status # "bound")
    /\ \A c \in BlockCases :
           (stream = BlockStream(c) /\ Ended) =>
               IF BlockAborts(c) THEN run_status = "panic" /\ pc = 2
               ELSE /\ run_status = "done"
                    /\ last_value = BlockVal(c)
                    /\ env["v"] = BlockVal(c)
                    /\ env["x"] = IntV(IF c.pre = "assign_x" THEN 7 ELSE 1)
                    /\ ~contains_key(env, "y")
    /\ \A b \in BOOLEAN :
           (stream = IfValueStream(b) /\ Ended) =>
               /\ run_status = "done"
               /\ last_value = IntV(IF b THEN 15 ELSE 25)

\* let x = 1; let v = { let x = 10; x + 1 }; v has given 11 and x is 1 again.
C17_Witness ==
    /\ stream = BlockStream([pre |-> "let_x", tail |-> "x_plus_1", semi |-> FALSE])
    /\ run_status = "done"
    /\ last_value = IntV(11)
    /\ env["x"] = IntV(1)

\* The assignments made so far by the statement being evaluated, in order.
Assigned == SelectSeq(events, LAMBDA ev : ev.k = "assign")

\* C19: in `let x = 1; let v = { x = 2; a } op right; x` with op `&&` or
\* `||`, the right operand is evaluated after the left one whatever a is: a
\* right operand `{ x = x * 10; b }` leaves x = 20 and v = a op b, and a right
\* operand that names an undefined variable or adds an Int and a Bool aborts
\* the run after the assignment x = 2 has been made.
C19_EagerLogical ==
    /\ (stream \in LogicalStreams) => (parse_status # "panic" /\ run_status # "bound")
    /\ \A c \in LogicalCases :
           (stream = LogicalStream(c) /\ Ended) =>
               IF c.r \in {"undefined", "mismatch"}
               THEN /\ run_status = "panic"
                    /\ pc = 2
                    /\ Assigned = <<AssignEvent("x", IntV(2))>>
               ELSE /\ run_status = "done"
                    /\ last_value = IntV(20)
                    /\ env["v"] = BoolV(IF c.op = "And"
                                         THEN c.a /\ (c.r = "assign_true")
                                         ELSE c.a \/ (c.r = "assign_true"))

\* let x = 1; let v = { x = 2; false } && { x = x * 10; true }; x has given 20.
C19_Witness ==
    /\ stream = LogicalStream([a |-> FALSE, op |-> "And", r |-> "assign_true"])
    /\ run_status = "done"
    /\ last_value = IntV(20)
    /\ env["v"] = BoolV(FALSE)

\* How often each block of the `if` has been evaluated.
Counts(c, t, e, d, u) ==
    /\ env["c"] = IntV(c)
    /\ env["t"] = IntV(t)
    /\ env["e"] = IntV(e)
    /\ env["d"] = IntV(d)
    /\ env["u"] = IntV(u)

\* C20: `let v = if cond { 10 } else ...; v`, every block counting its own
\* evaluations, ends without abort for a condition that is true, false, an
\* Int, a Str or Unit; the condition was evaluated once; the then-branch
\* was evaluated, once, exactly when the condition is true, and v is 10;
\* otherwise the else-branch was evaluated once and v is its value, or v is
\* Unit where there is no else; in `if .. else if ..` the second condition is
\* evaluated only when the first one is not true.
C20_IfEvaluation ==
    /\ (stream \in IfStreams) => (parse_status # "panic" /\ run_status \notin {"bound", "panic"})
    /\ \A c \in IfCases :
           (stream = IfStream(c) /\ run_status = "done") =>
               /\ last_value = env["v"]
               /\ IF c.c1 = "true" THEN Counts(1, 1, 0, 0, 0) /\ env["v"] = IntV(10)
                  ELSE CASE c.form = "no_else" -> Counts(1, 0, 0, 0, 0) /\ env["v"] = Unit
                         [] c.form = "else" -> Counts(1, 0, 1, 0, 0) /\ env["v"] = IntV(20)
                         [] c.form = "chain" ->
                               IF c.c2 = "true"
                               THEN Counts(1, 0, 0, 1, 1) /\ env["v"] = IntV(20)
                               ELSE Counts(1, 0, 1, 1, 0) /\ env["v"] = IntV(30)

\* An `if` whose condition is the Int 1 has taken its else-branch.
C20_Witness ==
    /\ stream = IfStream([form |-> "else", c1 |-> "int", c2 |-> "true"])
    /\ run_status = "done"
    /\ last_value = IntV(20)
    /\ Counts(1, 0, 1, 0, 0)

\* How often the block of TailStream(c) runs.
Rounds(c) == IF c.wrap = "while" THEN 2 ELSE 1

\* C23: where a block ends with `if true { x = x + 1; }` as its last
\* expression, the x of the enclosing environment gets what the statements
\* before it assigned (10 a round with `x = x + 10;`, nothing without) and
\* never the 1 the `if` adds, for a block that stands alone and for the body of
\* a loop; with `;` after the `if` the 1 is added every round.  In
\* `let v = { { x = 4; x } }` the inner block sees its x = 4 while the
\* enclosing x stays 1.
C23_WriteBackBeforeTail ==
    /\ (stream \in TailStreams) => (parse_status # "panic" /\ run_status \notin {"bound", "panic"})
    /\ \A c \in TailCases :
           (stream = TailStream(c) /\ run_status = "done") =>
               /\ last_value = IntV(Rounds(c) * ((IF c.pre THEN 10 ELSE 0) + (IF c.semi THEN 1 ELSE 0)))
               /\ env["x"] = last_value
               /\ env["n"] = IntV(IF c.wrap = "while" THEN 2 ELSE 0)
    /\ (stream = NestedTailStream /\ run_status = "done") =>
           /\ env["v"] = IntV(4)
           /\ env["x"] = IntV(1)
           /\ last_value = IntV(5)

\* The loop body `{ n = n + 1; x = x + 10; if true { x = x + 1; } }` has run
\* twice and x is 20.
C23_Witness ==
    /\ stream = TailStream([wrap |-> "while", pre |-> TRUE, semi |-> FALSE])
    /\ run_status = "done"
    /\ last_value = IntV(20)
    /\ env["n"] = IntV(2)

\* What the write-back of a block with these items makes of the enclosing
\* environment, given the child environment the items left.
WrittenBack(before, child, items) ==
    [n \in DOMAIN before |->
        IF n \in DOMAIN child /\ n \notin DirectLets(items) THEN child[n] ELSE before[n]]

\* C24: every block that has returned leaves in the enclosing environment the
\* names that were bound there and no other; each of them has the child's
\* value unless a `let` among the items of the block declares it, wherever
\* the `let` stands.  So a `fn f` in a block replaces an enclosing f, a
\* `let f` keeps it, an assignment before or after a `let x` of the same block
\* stays inside, a `let` of a nested block does not make the name local, and
\* a name declared only inside the block is unbound after it.
C24_OnlyLetIsLocal ==
    /\ (stream \in LocalStreams) => (parse_status # "panic" /\ run_status # "bound")
    /\ \A j \in BlockEvents :
           events[j].after = WrittenBack(events[j].before, events[j].written,
                                         events[j].statements)
    /\ \A c \in LocalCases :
           (stream = c.toks /\ Ended) =>
               IF c.abort THEN run_status = "panic"
               ELSE run_status = "done" /\ last_value = IntV(c.val)

\* fn f() { 1 } { fn f() { 2 } } f() has given 2.
C24_Witness ==
    /\ stream = FnToks("f", 1) \o Braces(FnToks("f", 2)) \o CallToks("f")
    /\ run_status = "done"
    /\ last_value = IntV(2)

====
